---- MODULE Spec2Model ----
(***************************************************************************)
(* A model of pg-mig: the Registry of migration versions, the Patch        *)
(* planner, Dest.runFile, the Grid of Workers and the apply/undo action.    *)
(*                                                                         *)
(* Strings whose characters the code inspects (schema names, prefixes,     *)
(* version names, digests) are sequences of one-character strings.         *)
(***************************************************************************)
EXTENDS Integers, Sequences, FiniteSets, Bags, TLC

(***************************************************************************)
(* Strings.                                                                *)
(***************************************************************************)
\* The characters in use, in code-unit order (what JS string comparison uses).
Alphabet ==
  << "\n", "-", ".", "0", "1", "2", "3", "4", "5", "6", "7", "8", "9", ":", "=",
     "a", "b", "c", "d", "e", "f", "g", "h", "i", "j", "k", "l", "m", "n",
     "o", "p", "q", "r", "s", "t", "u", "v", "w", "x", "y", "z" >>

Str_before_undo == << "b", "e", "f", "o", "r", "e", "-", "u", "n", "d", "o" >>
Str_after_undo == << "a", "f", "t", "e", "r", "-", "u", "n", "d", "o" >>
Str_public == << "p", "u", "b", "l", "i", "c" >>
Str_sh1 == << "s", "h", "1" >>
Str_sh2 == << "s", "h", "2" >>
Str_sh3 == << "s", "h", "3" >>

Ord(c) == CHOOSE i \in 1..Len(Alphabet) : Alphabet[i] = c

IsDigit(c) == c \in {"0", "1", "2", "3", "4", "5", "6", "7", "8", "9"}

HexDigits == << "0", "1", "2", "3", "4", "5", "6", "7", "8", "9",
                "a", "b", "c", "d", "e", "f" >>

Min(a, b) == IF a <= b THEN a ELSE b

\* a < b for JS strings: the first differing code unit decides, a proper
\* prefix is smaller.
RECURSIVE StrLessFrom(_, _, _)
StrLessFrom(a, b, i) ==
  IF i > Len(a) THEN i <= Len(b)
  ELSE IF i > Len(b) THEN FALSE
  ELSE IF a[i] # b[i] THEN Ord(a[i]) < Ord(b[i])
  ELSE StrLessFrom(a, b, i + 1)

StrLess(a, b) == StrLessFrom(a, b, 1)

StartsWith(s, p) == Len(p) <= Len(s) /\ SubSeq(s, 1, Len(p)) = p

\* lodash sortBy on strings: ascending, of a set of distinct strings.
RECURSIVE SortStrings(_)
SortStrings(S) ==
  IF S = {} THEN << >>
  ELSE LET m == CHOOSE x \in S : \A y \in S \ {x} : StrLess(x, y)
       IN  << m >> \o SortStrings(S \ {m})

RECURSIVE JoinWith(_, _)
JoinWith(list, sep) ==
  IF Len(list) = 0 THEN << >>
  ELSE IF Len(list) = 1 THEN list[1]
  ELSE list[1] \o sep \o JoinWith(Tail(list), sep)

RECURSIVE SumOrd(_)
SumOrd(s) == IF Len(s) = 0 THEN 0 ELSE Ord(s[1]) + SumOrd(Tail(s))

\* The first two hex digits of the SHA-256 of the version lists the model
\* hashes (the empty string first), as crypto computes them.
KnownSha256 ==
  << << << >>,
        << "e", "3" >> >>,
     << << "0", ".", "a", ".", "s", "h" >>,
        << "4", "e" >> >>,
     << << "0", "0", ".", "a", ".", "s", "h" >>,
        << "f", "2" >> >>,
     << << "1", ".", "a", ".", "s", "h" >>,
        << "7", "0" >> >>,
     << << "0", ".", "a", ".", "s", "h", "\n", "1", ".", "a", ".", "s", "h" >>,
        << "0", "1" >> >>,
     << << "1", ".", "a", ".", "s", "h", "\n", "2", ".", "b", ".", "s", "h", "\n", "3", ".", "c", ".", "s", "h", "3" >>,
        << "c", "4" >> >> >>

\* crypto.createHash("sha256").update(s).digest("hex"), reduced to its first
\* two hex digits; for a content not in the table, a two-digit hex checksum
\* of the characters: a function of the content alone.
Sha256Hex(s) ==
  IF \E i \in 1..Len(KnownSha256) : KnownSha256[i][1] = s
  THEN KnownSha256[CHOOSE i \in 1..Len(KnownSha256) : KnownSha256[i][1] = s][2]
  ELSE LET n == (SumOrd(s) * 7 + Len(s)) % 256
       IN  << HexDigits[(n \div 16) + 1], HexDigits[(n % 16) + 1] >>

(***************************************************************************)
(* The migration directory and the Registry built from it.                 *)
(***************************************************************************)
V1 == << "1", ".", "a", ".", "s", "h" >>
V2 == << "2", ".", "b", ".", "s", "h" >>
V3 == << "3", ".", "c", ".", "s", "h", "3" >>

BeforeSql == << "b", "e", "f", "o", "r", "e" >>
AfterSql == << "a", "f", "t", "e", "r" >>

\* The entries in the order the constructor meets the sorted file names.
DirEntries ==
  << [name |-> V1, schemaPrefix |-> << "s", "h" >>],
     [name |-> V2, schemaPrefix |-> << "s", "h" >>],
     [name |-> V3, schemaPrefix |-> << "s", "h", "3" >>] >>

\* Registry.entriesByPrefix before the sort: prefixes in first-seen order.
RECURSIVE PrefixesInOrder(_, _)
PrefixesInOrder(entries, seen) ==
  IF Len(entries) = 0 THEN << >>
  ELSE IF entries[1].schemaPrefix \in seen
       THEN PrefixesInOrder(Tail(entries), seen)
       ELSE << entries[1].schemaPrefix >>
            \o PrefixesInOrder(Tail(entries), seen \cup {entries[1].schemaPrefix})

\* The entriesByPrefix map left in first-seen order, without the sort.
SortByLengthDesc_unsorted(list) == list

\* Stable sort of the prefixes by descending length (sortBy -prefix.length).
RECURSIVE SortByLengthDesc(_)
SortByLengthDesc(list) ==
  IF Len(list) = 0 THEN << >>
  ELSE LET i == CHOOSE k \in 1..Len(list) :
                  /\ \A j \in 1..Len(list) : Len(list[j]) <= Len(list[k])
                  /\ \A j \in 1..(k - 1) : Len(list[j]) < Len(list[k])
           rest == SubSeq(list, 1, i - 1) \o SubSeq(list, i + 1, Len(list))
       IN  << list[i] >> \o SortByLengthDesc(rest)

getPrefixes == SortByLengthDesc(PrefixesInOrder(DirEntries, {}))

EntriesOfPrefix(prefix) ==
  SelectSeq(DirEntries, LAMBDA e : e.schemaPrefix = prefix)

RegistryVersions == {DirEntries[i].name : i \in 1..Len(DirEntries)}

getVersions == SortStrings(RegistryVersions)

hasVersion(version) == version \in RegistryVersions

\* name.match(/^\d+\.[^.]+\.[^.]+/): the first three dotted parts, or the name.
DotsOf(name) == {i \in 1..Len(name) : name[i] = "."}

extractVersion(name) ==
  LET dots == DotsOf(name)
      d1 == CHOOSE i \in dots : \A j \in dots : i <= j
      after1 == {i \in dots : i > d1}
      d2 == CHOOSE i \in after1 : \A j \in after1 : i <= j
      after2 == {i \in dots : i > d2}
      end == IF after2 = {} THEN Len(name)
             ELSE (CHOOSE i \in after2 : \A j \in after2 : i <= j) - 1
      matches ==
        /\ dots # {}
        /\ d1 > 1
        /\ \A i \in 1..(d1 - 1) : IsDigit(name[i])
        /\ after1 # {}
        /\ d2 > d1 + 1
        /\ end > d2
  IN  IF matches THEN SubSeq(name, 1, end) ELSE name

\* versions[last].match(/^(\d+)/): the leading digits.
RECURSIVE LeadingDigits(_)
LeadingDigits(s) ==
  IF Len(s) > 0 /\ IsDigit(s[1]) THEN << s[1] >> \o LeadingDigits(Tail(s))
  ELSE << >>

DIGEST_SEP == << "." >>

getDigestOf(versions) ==
  LET last == IF Len(versions) > 0 THEN versions[Len(versions)] ELSE << >>
      lastOrder ==
        IF Len(versions) > 0 /\ LeadingDigits(last) # << >> THEN LeadingDigits(last)
        ELSE IF Len(versions) > 0 THEN last
        ELSE << "0" >>
  IN  lastOrder \o DIGEST_SEP \o Sha256Hex(JoinWith(versions, << "\n" >>))

getDigest == getDigestOf(getVersions)

\* schemaNameMatchesPrefix without prefixItselfHasDigitSoItIsSelectiveEnough.
schemaNameMatchesPrefix_withoutPrefixDigit(schema, prefix) ==
  /\ StartsWith(schema, prefix)
  /\ \/ schema = prefix
     \/ Len(schema) > Len(prefix) /\ IsDigit(schema[Len(prefix) + 1])

schemaNameMatchesPrefix(schema, prefix) ==
  LET schemaStartsWithPrefix == StartsWith(schema, prefix)
      schemaEqualsToPrefixExactly == schema = prefix
      schemaHasDigitAfterPrefix ==
        Len(schema) > Len(prefix) /\ IsDigit(schema[Len(prefix) + 1])
      prefixItselfHasDigitSoItIsSelectiveEnough ==
        \E i \in 1..Len(prefix) : IsDigit(prefix[i])
  IN  /\ schemaStartsWithPrefix
      /\ \/ schemaEqualsToPrefixExactly
         \/ schemaHasDigitAfterPrefix
         \/ prefixItselfHasDigitSoItIsSelectiveEnough

\* Registry.groupBySchema for one schema: the loop over entriesByPrefix, with
\* cur the prefix already set for the schema (<< >> when none yet).
NoPrefix == << >>
Conflict == << "conflict" >>

\* The loop without "if (prevPrefix.startsWith(schemaPrefix)) continue": it
\* throws at the second prefix that matches.
RECURSIVE groupLoop_withoutStartsWith(_, _, _)
groupLoop_withoutStartsWith(schema, prefixes, cur) ==
  IF Len(prefixes) = 0 THEN cur
  ELSE IF ~schemaNameMatchesPrefix(schema, prefixes[1])
       THEN groupLoop_withoutStartsWith(schema, Tail(prefixes), cur)
       ELSE IF cur # NoPrefix
            THEN Conflict
            ELSE groupLoop_withoutStartsWith(schema, Tail(prefixes), prefixes[1])

RECURSIVE groupLoop(_, _, _)
groupLoop(schema, prefixes, cur) ==
  IF Len(prefixes) = 0 THEN cur
  ELSE IF ~schemaNameMatchesPrefix(schema, prefixes[1])
       THEN groupLoop(schema, Tail(prefixes), cur)
       ELSE IF cur # NoPrefix
            THEN IF StartsWith(cur, prefixes[1])
                 THEN groupLoop(schema, Tail(prefixes), cur)
                 ELSE Conflict
            ELSE groupLoop(schema, Tail(prefixes), prefixes[1])

\* The prefix groupBySchema keys the schema's entries by: NoPrefix when the
\* schema is absent from the result, Conflict when it throws.
groupBySchema(schema) == groupLoop(schema, getPrefixes, NoPrefix)

reEntriesOf(schema) == EntriesOfPrefix(groupBySchema(schema))

(***************************************************************************)
(* Patch: the chains to run, from the versions each schema has persisted.  *)
(***************************************************************************)
\* Migration.newVersions = null (before.sql and after.sql).
Null == << << >> >>

Names(entries) == [i \in 1..Len(entries) |-> entries[i].name]

\* throw "...": the kind of the message and the versions it names.
Throw(msg, named) == [type |-> "throw", msg |-> msg, named |-> named]

RECURSIVE getChainUpLoop(_, _, _, _)
getChainUpLoop(dest, dbVersions, reEntries, i) ==
  IF i > Len(reEntries)
  THEN IF Len(dbVersions) > Len(reEntries)
       THEN Throw("missing on disk", << dbVersions[Len(reEntries) + 1] >>)
       ELSE [type |-> "up", dest |-> dest, migrations |-> << >>]
  ELSE IF i > Len(dbVersions)
       THEN LET entriesToApply == SubSeq(reEntries, i, Len(reEntries))
            IN  [type |-> "up",
                 dest |-> dest,
                 migrations |->
                   [pos \in 1..Len(entriesToApply) |->
                      [version |-> entriesToApply[pos].name,
                       file |-> << entriesToApply[pos].name, << "u", "p" >> >>,
                       newVersions |->
                         dbVersions \o Names(SubSeq(entriesToApply, 1, pos))]]]
       ELSE IF dbVersions[i] # reEntries[i].name
            THEN Throw("timeline violation", << reEntries[i].name, dbVersions[i] >>)
            ELSE getChainUpLoop(dest, dbVersions, reEntries, i + 1)

\* getChainUp with newVersions built without ...dbVersions.
getChainUp_withoutDbVersions(dest, dbVersions, reEntries) ==
  IF \A i \in 1..Len(dbVersions) : i <= Len(reEntries) /\ dbVersions[i] = reEntries[i].name
  THEN getChainUpLoop(dest, << >>,
                      SubSeq(reEntries, Len(dbVersions) + 1, Len(reEntries)), 1)
  ELSE getChainUpLoop(dest, dbVersions, reEntries, 1)

\* getChainUp looking at the lengths of the two lists only, as if the
\* versions persisted were the first entries.
getChainUp_lengthsOnly(dest, dbVersions, reEntries) ==
  getChainUpLoop(dest,
                 Names(SubSeq(reEntries, 1, Min(Len(dbVersions), Len(reEntries))))
                 \o SubSeq(dbVersions, Len(reEntries) + 1, Len(dbVersions)),
                 reEntries, 1)

getChainUp(dest, dbVersions, reEntries) ==
  getChainUpLoop(dest, dbVersions, reEntries, 1)

IndexOf(list, x) ==
  IF \E i \in 1..Len(list) : list[i] = x
  THEN CHOOSE i \in 1..Len(list) : list[i] = x /\ \A j \in 1..(i - 1) : list[j] # x
  ELSE 0

\* getChainDn with newVersions = dbVersions.slice(1).
getChainDn_sliceFront(dest, dbVersions, reEntries, undoArg) ==
  LET undoVersion == extractVersion(undoArg)
  IN  IF Len(dbVersions) > 0 /\ dbVersions[Len(dbVersions)] = undoVersion
      THEN [type |-> "dn",
            dest |-> dest,
            migrations |->
              << [version |-> undoVersion,
                  file |-> << undoVersion, << "d", "n" >> >>,
                  newVersions |-> SubSeq(dbVersions, 2, Len(dbVersions))] >>]
      ELSE [type |-> "null"]

\* getChainDn skipping the schema when the version is not its latest one.
getChainDn_skipsMiddle(dest, dbVersions, reEntries, undoArg) ==
  LET undoVersion == extractVersion(undoArg)
  IN  IF Len(dbVersions) > 0 /\ dbVersions[Len(dbVersions)] = undoVersion
      THEN IF \E i \in 1..Len(reEntries) : reEntries[i].name = undoVersion
           THEN [type |-> "dn",
                 dest |-> dest,
                 migrations |->
                   << [version |-> undoVersion,
                       file |-> << undoVersion, << "d", "n" >> >>,
                       newVersions |-> SubSeq(dbVersions, 1, Len(dbVersions) - 1)] >>]
           ELSE Throw("no such version on disk", << undoVersion >>)
      ELSE [type |-> "null"]

getChainDn(dest, dbVersions, reEntries, undoArg) ==
  LET undoVersion == extractVersion(undoArg)
  IN  IF Len(dbVersions) > 0 /\ dbVersions[Len(dbVersions)] = undoVersion
      THEN IF \E i \in 1..Len(reEntries) : reEntries[i].name = undoVersion
           THEN [type |-> "dn",
                 dest |-> dest,
                 migrations |->
                   << [version |-> undoVersion,
                       file |-> << undoVersion, << "d", "n" >> >>,
                       newVersions |-> SubSeq(dbVersions, 1, Len(dbVersions) - 1)] >>]
           ELSE Throw("no such version on disk", << undoVersion >>)
      ELSE IF IndexOf(dbVersions, undoVersion) > 0
           THEN Throw("undo in the middle",
                      << undoVersion >>
                      \o SubSeq(dbVersions, IndexOf(dbVersions, undoVersion) + 1,
                                Len(dbVersions)))
           ELSE [type |-> "null"]

\* mode.undo: << >> is undefined (apply).
NoUndo == << >>

getSchemaChain(dest, dbVersions, reEntries, undo) ==
  IF undo = NoUndo
  THEN getChainUp(dest, dbVersions, reEntries)
  ELSE getChainDn(dest, dbVersions, reEntries, undo)

(***************************************************************************)
(* The fleet: the hosts, their schemas and the three constant functions.   *)
(***************************************************************************)
HostList == << "h1", "h2" >>
Hosts == {HostList[i] : i \in 1..Len(HostList)}

DEFAULT_SCHEMA == Str_public

\* The schemas a host has from the start, and those its before.sql creates
\* when they are missing (the shards of the host).
BaseSchemas(h) == IF h = "h1" THEN {Str_public, Str_sh1} ELSE {Str_public, Str_sh3}
LateSchemas(h) == IF h = "h1" THEN {Str_sh2} ELSE {}
SchemaNames == UNION {BaseSchemas(h) \cup LateSchemas(h) : h \in Hosts}
Dests == {<< h, s >> : h \in Hosts, s \in SchemaNames}

\* The contents of before.sql and after.sql, as far as filesHash reads them.
DepFilesContent == << "b", "\n", "a" >>

VARIABLES
  schemas,      \* host -> the schemas that exist on it (pg_namespace)
  versions,     \* <<host, schema>> -> what its mig_versions_const() returns
  digest,       \* host -> what its mig_digest_const() returns, << >> if absent
  fingerprint,  \* host -> what its mig_rerun_fingerprint_const() returns
  pc,           \* where the invocation of migrate() is
  opts,         \* MigrateOptions of the current (or the last) invocation
  chains,       \* the chains Patch.getChains returned
  done,         \* chain key -> Worker.succeededMigrations for that chain
  errors,       \* the chain keys with an entry in Worker.errorMigrations
  wtodo,        \* the hosts a saveDigests/saveRerunFingerprint has not written
  result,       \* how the last call of actionUndoOrApply ended, and where
  failedBefore, \* an earlier invocation failed or was interrupted
  runs          \* the invocations of migrate() so far

\* One call of Dest.runFile seen statement by statement (SpecRunFile).
VARIABLES
  rfInput,      \* the script of the file, newVersions, the list before the call
  rfStdin,      \* the statements psql reads, the file included
  rfPos,        \* the statement psql executes next
  rfTx,         \* the open transaction of the connection and what it holds
  rfCommitted,  \* the transactions the server committed, in order
  rfCode        \* the exit code of psql

\* One call of Grid.run seen token by token (SpecGrid).
VARIABLES
  gFiles,       \* file -> its File record as Registry.buildFile made it
  gParallelism, \* Grid.workersPerHost
  gPhase,       \* where Grid.run is
  gQueues,      \* queue -> the chains no Worker has shifted from it yet
  gWorkers,     \* Grid._workers
  gResult       \* what Grid.run returned

\* One call of loadDBDigest over the Dests of an application (SpecDigest).
VARIABLES
  dgReplies,    \* what the sqlRunner gave for each Dest so far, in order
  dgOut         \* what loadDBDigest returned or that it threw

\* One planning of a schema by Patch, and the Registry's matching of its
\* name (SpecPlan).
VARIABLES
  plSchema,     \* the name of the schema
  plDb,         \* the versions the schema has persisted
  plOut         \* what the operation called on them gave

\* What Grid.run has called so far.
VARIABLES
  gCalls        \* the chains shifted from the queues, the runFile calls and the
                \* codes their psql closed with, as bags

\* The database servers.
VARIABLES
  databases     \* the hosts on which the database of the Dests exists

\* One call of Dest.createDB(onRetry) (SpecCreateDB).
VARIABLES
  cdPc,         \* where the call is: at a query, at the timer, returned, thrown
  cdRetries,    \* the arguments of the calls of onRetry, in order
  cdFailed,     \* the queries that have thrown so far
  cdSlept,      \* the setTimeout(1000) that have elapsed
  cdOut         \* what the call returned or threw

dbVars == << schemas, versions, digest, fingerprint, databases >>
runVars == << pc, opts, chains, done, errors, wtodo, result, failedBefore, runs >>
psqlVars == << rfInput, rfStdin, rfPos, rfTx, rfCommitted, rfCode >>
gridVars == << gFiles, gParallelism, gPhase, gQueues, gWorkers, gResult, gCalls >>
digestVars == << dgReplies, dgOut >>
planVars == << plSchema, plDb, plOut >>
\* The migration directory of an invocation and its loading (SpecLoad), and
\* one call of validateCreateIndexConcurrently (SpecValidate).
VARIABLES
  migDir,       \* the files of options.migDir, name and content
  registry,     \* whether new Registry(migDir) has returned or thrown
  vcInput,      \* the content and the vars given to the validator
  vcOut         \* what the validator returned

createVars == << cdPc, cdRetries, cdFailed, cdSlept, cdOut >>
loadVars == << migDir, registry, vcInput, vcOut >>
vars ==
  << dbVars, runVars, psqlVars, gridVars, digestVars, planVars, createVars, loadVars >>

\* Bounds of the model.
MaxRuns == 2

\* options.parallelism ?? 10: the workersPerHost of a Grid when the option
\* is not given.
DefaultParallelism == 10

NoDigest == << >>

(***************************************************************************)
(* Dest: reads.                                                            *)
(***************************************************************************)
\* SELECT nspname ... NOT LIKE '%\_%' ORDER BY nspname
loadSchemas(h) == SortStrings(schemas[h])

\* [...schemas, `hash=${filesHash(depFiles)}`].join(",")
buildRerunFingerprint(h) ==
  JoinWith(loadSchemas(h) \o << << "h", "a", "s", "h", "=" >> \o Sha256Hex(DepFilesContent) >>,
           << "," >>)

\* checkRerunFingerprint without the test for an empty fingerprint.
checkRerunFingerprint_emptyMatches ==
  \A h \in Hosts :
    fingerprint[h] = << >> \/ fingerprint[h] = buildRerunFingerprint(h)

checkRerunFingerprint ==
  \A h \in Hosts :
    IF fingerprint[h] = << >> THEN FALSE ELSE fingerprint[h] = buildRerunFingerprint(h)

(***************************************************************************)
(* Patch.getChains over the fleet.                                         *)
(***************************************************************************)
\* The schemas of the host that groupBySchema keeps, in loadSchemas order.
MatchedSchemas(h) ==
  SelectSeq(loadSchemas(h), LAMBDA s : groupBySchema(s) # NoPrefix)

getHostChainsRaw(h, undo) ==
  LET ss == MatchedSchemas(h)
  IN  [i \in 1..Len(ss) |->
         getSchemaChain(<< h, ss[i] >>, versions[<< h, ss[i] >>], reEntriesOf(ss[i]), undo)]

HostThrows(h, undo) ==
  \/ \E s \in schemas[h] : groupBySchema(s) = Conflict
  \/ \E i \in 1..Len(getHostChainsRaw(h, undo)) : getHostChainsRaw(h, undo)[i].type = "throw"

\* chains.filter((chain) => chain && chain.migrations.length > 0), already in
\* (host, db, schema) order.
getHostChains(h, undo) ==
  SelectSeq(getHostChainsRaw(h, undo),
            LAMBDA c : c.type \in {"up", "dn"} /\ Len(c.migrations) > 0)

RECURSIVE Flatten(_)
Flatten(lists) ==
  IF Len(lists) = 0 THEN << >> ELSE lists[1] \o Flatten(Tail(lists))

getChainsThrows(undo) ==
  \/ undo # NoUndo /\ ~hasVersion(extractVersion(undo))
  \/ \E h \in Hosts : HostThrows(h, undo)

\* getChains returning the chains of the first host only.
getChains_firstHostOnly(undo) == getHostChains(HostList[1], undo)

getChains(undo) ==
  Flatten([i \in 1..Len(HostList) |-> getHostChains(HostList[i], undo)])

(***************************************************************************)
(* migrate() and actionUndoOrApply.                                        *)
(***************************************************************************)
\* A version that is not in the directory.
V4 == << "4", ".", "d", ".", "s", "h" >>

UndoArgs == {V1, V2, V3, V4}

\* createDB is read for an apply only.
Options ==
  [type : {"apply"}, version : {NoUndo}, dry : BOOLEAN, force : BOOLEAN,
   createDB : BOOLEAN]
  \cup [type : {"undo"}, version : UndoArgs, dry : BOOLEAN, force : BOOLEAN,
         createDB : {FALSE}]

\* Where actionUndoOrApply starts: at the createDB loop or at the planning.
FirstPc(o) == IF o.type = "apply" /\ o.createDB THEN "createDB" ELSE "plan"

\* mode.undo as actionUndoOrApply passes it to Patch.
ModeUndo(o) == IF o.type = "undo" THEN o.version ELSE NoUndo

ChainKey(phase, c) == << phase, c.dest[1], c.dest[2] >>

\* The before and after chains the Grid is built with: one per host.
beforeChains ==
  [i \in 1..Len(HostList) |->
     [type |-> "dn",
      dest |-> << HostList[i], DEFAULT_SCHEMA >>,
      migrations |-> << [version |-> BeforeSql, file |-> << BeforeSql, << >> >>,
                         newVersions |-> Null] >>]]

afterChains ==
  [i \in 1..Len(HostList) |->
     [type |-> "up",
      dest |-> << HostList[i], DEFAULT_SCHEMA >>,
      migrations |-> << [version |-> AfterSql, file |-> << AfterSql, << >> >>,
                         newVersions |-> Null] >>]]

PhaseChains(phase) ==
  IF phase = "before" THEN beforeChains
  ELSE IF phase = "main" THEN chains
  ELSE IF phase = "after" THEN afterChains
  ELSE << >>

SeqRange(list) == {list[i] : i \in 1..Len(list)}

GridKeys ==
  UNION {{ChainKey(ph, c) : c \in SeqRange(PhaseChains(ph))} :
           ph \in {"before", "main", "after"}}

ChainFinished(phase, c) ==
  \/ ChainKey(phase, c) \in errors
  \/ done[ChainKey(phase, c)] = Len(c.migrations)

\* Grid.numErrors, as a truth value.
numErrors == errors # {}

NoResult == [kind |-> "none", at |-> "idle"]

\* The call of actionUndoOrApply ends (returns or throws) and migrate() returns
\* or dies with it.
Finish(kind) ==
  /\ pc' = "idle"
  /\ result' = [kind |-> kind, at |-> pc]
  /\ chains' = << >>
  /\ done' = << >>
  /\ errors' = {}
  /\ wtodo' = {}
  /\ failedBefore' = (failedBefore \/ kind \in {"failure", "threw", "crashed"})
  /\ UNCHANGED << opts, runs >>

\* The call goes on at pc q.
Goto(q) ==
  /\ pc' = q
  /\ wtodo' = IF q \in {"saveBeforeUndo", "saveDigestFast", "resetFingerprint",
                        "saveFingerprint", "saveDigest", "saveAfterUndo"}
              THEN Hosts ELSE {}
  /\ UNCHANGED << opts, result, failedBefore, runs >>

\* No host has a migration function yet.
InitDb ==
  /\ schemas = [h \in Hosts |-> BaseSchemas(h)]
  /\ versions = [d \in Dests |-> << >>]
  /\ digest = [h \in Hosts |-> NoDigest]
  /\ fingerprint = [h \in Hosts |-> << >>]
  /\ databases = Hosts

\* migrate() has not been called.
InitCall ==
  /\ pc = "idle"
  /\ opts = [type |-> "apply", version |-> NoUndo, dry |-> FALSE, force |-> FALSE,
             createDB |-> FALSE]
  /\ done = << >>
  /\ errors = {}
  /\ wtodo = {}
  /\ result = NoResult
  /\ failedBefore = FALSE
  /\ runs = 0

NoTx == [open |-> FALSE, effects |-> {}, versions |-> Null]

\* No psql process.
PsqlIdle ==
  /\ rfInput = [script |-> << >>, newVersions |-> Null, before |-> << >>]
  /\ rfStdin = << >>
  /\ rfPos = 0
  /\ rfTx = NoTx
  /\ rfCommitted = << >>
  /\ rfCode = "none"

NoOut == [state |-> "none", digests |-> << >>, best |-> << >>]

\* loadDBDigest has not been called.
DigestIdle ==
  /\ dgReplies = << >>
  /\ dgOut = NoOut

NoPlan == [op |-> "none", start |-> << >>, ran |-> << >>]

\* Nothing is planned apart from the fleet.
PlanIdle ==
  /\ plSchema = << >>
  /\ plDb = << >>
  /\ plOut = NoPlan

\* Dest.createDB has not been called.
CreateIdle ==
  /\ cdPc = "idle"
  /\ cdRetries = << >>
  /\ cdFailed = 0
  /\ cdSlept = 0
  /\ cdOut = << >>

\* No directory is read and the validator is not called: the levels that
\* start from a built Registry.
LoadIdle ==
  /\ migDir = << >>
  /\ registry = "none"
  /\ vcInput = << >>
  /\ vcOut = << >>

\* No chainsQueue.shift(), no dest.runFile() and no close of a psql yet.
NoCalls == [shift |-> EmptyBag, runFile |-> EmptyBag, closed |-> EmptyBag]

\* No Grid.
GridIdle ==
  /\ gCalls = NoCalls
  /\ gFiles = << >>
  /\ gParallelism = DefaultParallelism
  /\ gPhase = "none"
  /\ gQueues = << >>
  /\ gWorkers = << >>
  /\ gResult = "none"

\* The fleet before the first invocation: on a developer's machine the
\* database of the last host may not exist yet.
Init ==
  /\ schemas = [h \in Hosts |-> BaseSchemas(h)]
  /\ versions = [d \in Dests |-> << >>]
  /\ digest = [h \in Hosts |-> NoDigest]
  /\ fingerprint = [h \in Hosts |-> << >>]
  /\ databases \in {Hosts, Hosts \ {HostList[Len(HostList)]}}
  /\ InitCall
  /\ chains = << >>
  /\ PsqlIdle
  /\ GridIdle
  /\ DigestIdle
  /\ PlanIdle
  /\ CreateIdle
  /\ LoadIdle

\* migrate(options): the first call of actionUndoOrApply of an invocation.
Migrate(o) ==
  /\ pc = "idle"
  /\ runs < MaxRuns
  /\ runs' = runs + 1
  /\ opts' = o
  /\ pc' = FirstPc(o)
  /\ UNCHANGED << dbVars, chains, done, errors, wtodo, result, failedBefore >>

\* for (const dest of hostDests) await dest.createDB(...): CREATE DATABASE on
\* the hosts where it does not exist.
createDB ==
  /\ pc = "createDB"
  /\ databases' = Hosts
  /\ pc' = "plan"
  /\ UNCHANGED << schemas, versions, digest, fingerprint >>
  /\ UNCHANGED << opts, chains, done, errors, wtodo, result, failedBefore, runs >>

\* saveRerunFingerprint(..., "reset") placed before patch.getChains().
PatchGetChains_resetsFirst ==
  /\ pc = "plan"
  /\ IF databases # Hosts \/ getChainsThrows(ModeUndo(opts))
     THEN /\ Finish("threw")
          /\ fingerprint' = [h \in Hosts |-> << >>]
          /\ UNCHANGED << schemas, versions, digest, databases >>
     ELSE /\ chains' = getChains(ModeUndo(opts))
          /\ UNCHANGED << dbVars, done, errors >>
          /\ IF opts.type = "undo" /\ Len(chains') > 0 /\ ~opts.dry
             THEN Goto("saveBeforeUndo")
             ELSE Goto("fast")

\* const chains = await patch.getChains(), and the choice of what follows; the
\* queries of a host without the database throw.
PatchGetChains ==
  /\ pc = "plan"
  /\ IF databases # Hosts \/ getChainsThrows(ModeUndo(opts))
     THEN Finish("threw") /\ UNCHANGED dbVars
     ELSE /\ chains' = getChains(ModeUndo(opts))
          /\ UNCHANGED << dbVars, done, errors >>
          /\ IF opts.type = "undo" /\ Len(chains') > 0 /\ ~opts.dry
             THEN Goto("saveBeforeUndo")
             ELSE Goto("fast")

\* Dest.saveDigest on one host, for the saveDigests call the invocation is in.
DigestToSave ==
  IF pc = "saveBeforeUndo" THEN Str_before_undo
  ELSE IF pc = "saveAfterUndo" THEN Str_after_undo
  ELSE getDigest

AfterWrites ==
  IF pc = "saveBeforeUndo" THEN "fast"
  ELSE IF pc = "resetFingerprint" THEN "before"
  ELSE IF pc = "saveFingerprint"
       THEN IF opts.type = "apply" THEN "replan" ELSE "saveAfterUndo"
       ELSE "idle"

\* One write of a saveDigests / saveRerunFingerprint call has succeeded; the
\* call returns when the last one has.
WriteDone(h) ==
  /\ wtodo' = IF wtodo = {h} /\ AfterWrites = "saveAfterUndo" THEN Hosts ELSE wtodo \ {h}
  /\ IF wtodo \ {h} # {}
     THEN UNCHANGED << pc, opts, chains, done, errors, result, failedBefore, runs >>
     ELSE IF AfterWrites = "idle"
          THEN /\ pc' = "idle"
               /\ result' = [kind |-> "success", at |-> pc]
               /\ chains' = << >>
               /\ done' = << >>
               /\ errors' = {}
               /\ UNCHANGED << opts, failedBefore, runs >>
          ELSE /\ pc' = AfterWrites
               /\ UNCHANGED << opts, chains, result, failedBefore, runs >>
               /\ IF AfterWrites = "before"
                  THEN /\ done' = [k \in GridKeys |-> 0]
                       /\ errors' = {}
                  ELSE UNCHANGED << done, errors >>

saveDigest(h) ==
  /\ pc \in {"saveBeforeUndo", "saveDigestFast", "saveDigest", "saveAfterUndo"}
  /\ h \in wtodo
  /\ digest' = [digest EXCEPT ![h] = DigestToSave]
  /\ UNCHANGED << schemas, versions, fingerprint, databases >>
  /\ WriteDone(h)

\* saveRerunFingerprint writing the built fingerprint for "reset" too.
saveRerunFingerprint_neverEmpty(h) ==
  /\ pc \in {"resetFingerprint", "saveFingerprint"}
  /\ h \in wtodo
  /\ fingerprint' = [fingerprint EXCEPT ![h] = buildRerunFingerprint(h)]
  /\ UNCHANGED << schemas, versions, digest, databases >>
  /\ WriteDone(h)

saveRerunFingerprint(h) ==
  /\ pc \in {"resetFingerprint", "saveFingerprint"}
  /\ h \in wtodo
  /\ fingerprint' = [fingerprint EXCEPT ![h] =
                       IF pc = "saveFingerprint" THEN buildRerunFingerprint(h) ELSE << >>]
  /\ UNCHANGED << schemas, versions, digest, databases >>
  /\ WriteDone(h)

\* A failed write that is swallowed: the call goes on as if it had succeeded.
QueryThrows_swallowed(h) ==
  /\ pc \in {"saveBeforeUndo", "saveDigestFast", "saveDigest", "saveAfterUndo",
              "resetFingerprint", "saveFingerprint"}
  /\ h \in wtodo
  /\ UNCHANGED dbVars
  /\ WriteDone(h)

\* Dest.query throws (psql exits with a code): the Promise.all of the call
\* rejects and actionUndoOrApply throws.
QueryThrows(h) ==
  /\ pc \in {"saveBeforeUndo", "saveDigestFast", "saveDigest", "saveAfterUndo",
              "resetFingerprint", "saveFingerprint"}
  /\ h \in wtodo
  /\ Finish("threw")
  /\ UNCHANGED dbVars

\* The fast path returning without the saveDigests call.
CheckFastPath_withoutSave ==
  /\ pc = "fast"
  /\ UNCHANGED dbVars
  /\ IF (Len(chains) = 0 /\ checkRerunFingerprint /\ ~opts.force) \/ opts.dry
     THEN Finish("success")
     ELSE Goto("resetFingerprint") /\ UNCHANGED << chains, done, errors >>

\* The fast path, the dry-run return, or on to the reset of the fingerprints.
CheckFastPath ==
  /\ pc = "fast"
  /\ UNCHANGED dbVars
  /\ IF Len(chains) = 0 /\ checkRerunFingerprint /\ ~opts.force
     THEN IF opts.type = "apply" /\ ~opts.dry
          THEN Goto("saveDigestFast") /\ UNCHANGED << chains, done, errors >>
          ELSE Finish("success")
     ELSE IF opts.dry
          THEN Finish("success")
          ELSE Goto("resetFingerprint") /\ UNCHANGED << chains, done, errors >>

(***************************************************************************)
(* Grid.run as the action sees it: the chains of a phase advance in any    *)
(* order, each by one Dest.runFile at a time; the tokens that order them   *)
(* further are the subject of SpecGrid.                                    *)
(***************************************************************************)
GridPhases == {"before", "main", "after"}

\* What the script of a migration does besides the version bookkeeping.
ScriptSchemas(h, m) ==
  IF m.version = BeforeSql THEN schemas[h] \cup LateSchemas(h) ELSE schemas[h]

\* Dest.runFile returned code 0: the script and newVersions are committed.
runFileCommit(dest, m) ==
  /\ schemas' = [schemas EXCEPT ![dest[1]] = ScriptSchemas(dest[1], m)]
  /\ versions' = IF m.newVersions # Null
                 THEN [versions EXCEPT ![dest] = m.newVersions]
                 ELSE versions
  /\ UNCHANGED << digest, fingerprint, databases >>

\* Grid.run makes a Worker per chain of before.sql and of after.sql, and
\* Math.min(chainsQueue.length, workersPerHost) Workers per host for the
\* main chains.
HasWorkers(phase) == phase # "main" \/ gParallelism >= 1

\* Worker.run: the next migration of a chain succeeds.
WorkerMigrationSucceeds(c) ==
  /\ pc \in GridPhases
  /\ HasWorkers(pc)
  /\ ~ChainFinished(pc, c)
  /\ runFileCommit(c.dest, c.migrations[done[ChainKey(pc, c)] + 1])
  /\ done' = [done EXCEPT ![ChainKey(pc, c)] = @ + 1]
  /\ UNCHANGED << pc, opts, chains, errors, wtodo, result, failedBefore, runs >>

\* Worker.run: the next migration of a chain exits with a code; the rest of the
\* chain is skipped.
WorkerMigrationFails(c) ==
  /\ pc \in GridPhases
  /\ HasWorkers(pc)
  /\ ~ChainFinished(pc, c)
  /\ errors' = errors \cup {ChainKey(pc, c)}
  /\ UNCHANGED << dbVars, pc, opts, chains, done, wtodo, result, failedBefore, runs >>

\* The await of a phase of Grid.run returns: all its workers have ended.
GridBarrier ==
  /\ pc \in GridPhases
  /\ HasWorkers(pc) => \A c \in SeqRange(PhaseChains(pc)) : ChainFinished(pc, c)
  /\ UNCHANGED dbVars
  /\ IF pc = "before"
     THEN IF numErrors
          THEN Finish("failure")
          ELSE Goto("main") /\ UNCHANGED << chains, done, errors >>
     ELSE IF pc = "main"
          THEN Goto("after") /\ UNCHANGED << chains, done, errors >>
          ELSE IF numErrors
               THEN Finish("failure")
               ELSE Goto("saveFingerprint") /\ UNCHANGED << chains, done, errors >>

\* (await patch.getChains()).length > 0 after a successful apply: more work and
\* the loop of migrate() calls actionUndoOrApply again, or the digest is saved.
RecomputeChains ==
  /\ pc = "replan"
  /\ UNCHANGED dbVars
  /\ IF getChainsThrows(ModeUndo(opts))
     THEN Finish("threw")
     ELSE IF Len(getChains(ModeUndo(opts))) > 0
          THEN /\ pc' = FirstPc(opts)
               /\ result' = [kind |-> "more", at |-> pc]
               /\ chains' = << >>
               /\ done' = << >>
               /\ errors' = {}
               /\ UNCHANGED << opts, wtodo, failedBefore, runs >>
          ELSE Goto("saveDigest") /\ UNCHANGED << chains, done, errors >>

\* The process is interrupted: in-flight psql transactions roll back.
Crash ==
  /\ pc # "idle"
  /\ Finish("crashed")
  /\ UNCHANGED dbVars

\* The levels below the call of actionUndoOrApply take no step of their own.
CallFrame ==
  UNCHANGED << psqlVars, gridVars, digestVars, planVars, createVars, loadVars >>

Next ==
  \/ (\E o \in Options : Migrate(o)) /\ CallFrame
  \/ createDB /\ CallFrame
  \/ PatchGetChains /\ CallFrame
  \/ (\E h \in Hosts : saveDigest(h)) /\ CallFrame
  \/ (\E h \in Hosts : saveRerunFingerprint(h)) /\ CallFrame
  \/ (\E h \in Hosts : QueryThrows(h)) /\ CallFrame
  \/ CheckFastPath /\ CallFrame
  \/ (\E c \in SeqRange(PhaseChains(pc)) : WorkerMigrationSucceeds(c)) /\ CallFrame
  \/ (\E c \in SeqRange(PhaseChains(pc)) : WorkerMigrationFails(c)) /\ CallFrame
  \/ GridBarrier /\ CallFrame
  \/ RecomputeChains /\ CallFrame
  \/ Crash /\ CallFrame

Spec == Init /\ [][Next]_vars

(***************************************************************************)
(* The same invocations on a fleet some schema of which was migrated with  *)
(* other files before (SpecAnyDb).                                         *)
(***************************************************************************)
\* The version lists the fleet may start with: none; 2.b.sh without 1.a.sh
\* on sh1 of h1; a version that is not on disk after 3.c.sh3 on sh3 of h2.
StartVersions ==
  { [d \in Dests |-> << >>],
    [d \in Dests |-> IF d = << "h1", Str_sh1 >> THEN << V2 >> ELSE << >>],
    [d \in Dests |-> IF d = << "h2", Str_sh3 >> THEN << V3, V4 >> ELSE << >>] }

InitAnyDb ==
  /\ schemas = [h \in Hosts |-> BaseSchemas(h)]
  /\ versions \in StartVersions
  /\ digest = [h \in Hosts |-> NoDigest]
  /\ fingerprint = [h \in Hosts |-> << >>]
  /\ databases = Hosts
  /\ InitCall
  /\ chains = << >>
  /\ PsqlIdle
  /\ GridIdle
  /\ DigestIdle
  /\ PlanIdle
  /\ CreateIdle
  /\ LoadIdle

SpecAnyDb == InitAnyDb /\ [][Next]_vars

(***************************************************************************)
(* Dest.runFile: psql reads a list of statements from its stdin and the    *)
(* server executes them one by one (SpecRunFile).                          *)
(***************************************************************************)
MaxScriptLen == 3

\* What a migration file can hold: a statement that changes the schema's
\* data or structure, and the COMMIT; and BEGIN; of a file that leaves the
\* transaction of pg-mig (CREATE INDEX CONCURRENTLY).
ScriptStatements == {"INSERT", "COMMIT;", "BEGIN;"}

Scripts == UNION {[1..n -> ScriptStatements] : n \in 0..MaxScriptLen}

\* The schema the modelled call of runFile works on.
RunFileDest == << "h1", Str_sh1 >>

\* The stdin runFile builds with the version update after the COMMIT, which
\* is how psql -f file -c update behaves.
runFileStdin_versionsAfterCommit(newVersions) ==
  << "BEGIN;",
     "SET search_path",
     "SET statement_timeout TO 0;",
     "\\i",
     ";",
     "\\echo",
     "CLOSE ALL;",
     "SET SESSION AUTHORIZATION DEFAULT;",
     "RESET ALL;",
     "DEALLOCATE ALL;",
     "UNLISTEN *;",
     "SELECT pg_advisory_unlock_all();",
     "DISCARD PLANS;",
     "DISCARD TEMP;",
     "DISCARD SEQUENCES;",
     "COMMIT;",
     IF newVersions # Null THEN "CREATE OR REPLACE FUNCTION" ELSE "" >>

\* The lines runFile joins into the stdin of psql. A list is truthy even when
\* it is empty, so only null leaves the version update out.
runFileStdin(newVersions) ==
  << "BEGIN;",
     "SET search_path",
     "SET statement_timeout TO 0;",
     "\\i",
     ";",
     "\\echo",
     IF newVersions # Null THEN "CREATE OR REPLACE FUNCTION" ELSE "",
     "CLOSE ALL;",
     "SET SESSION AUTHORIZATION DEFAULT;",
     "RESET ALL;",
     "DEALLOCATE ALL;",
     "UNLISTEN *;",
     "SELECT pg_advisory_unlock_all();",
     "DISCARD PLANS;",
     "DISCARD TEMP;",
     "DISCARD SEQUENCES;",
     "COMMIT;" >>

\* psql reads the statements of the file where \i stands.
RECURSIVE Include(_, _)
Include(stdin, script) ==
  IF stdin = << >> THEN << >>
  ELSE IF Head(stdin) = "\\i" THEN script \o Include(Tail(stdin), script)
  ELSE << Head(stdin) >> \o Include(Tail(stdin), script)

\* The statements of the stdin that change what the claim is about.
ScriptEffects == {i \in DOMAIN rfStdin : rfStdin[i] = "INSERT"}

NoCommit == [effects |-> {}, versions |-> Null]

\* The server commits the transaction tx: its effects and its version list
\* become visible together.
ServerCommit(tx) ==
  /\ rfCommitted' = Append(rfCommitted, [effects |-> tx.effects, versions |-> tx.versions])
  /\ versions' = IF tx.versions # Null
                 THEN [versions EXCEPT ![RunFileDest] = tx.versions]
                 ELSE versions

\* The connection ends: the server rolls back what is not committed.
ConnectionEnds(code) ==
  /\ rfCode' = code
  /\ rfTx' = NoTx
  /\ UNCHANGED << versions, rfCommitted, rfPos >>

\* What runs outside a transaction block commits on its own.
Autocommit(effects, newVersions) ==
  ServerCommit([effects |-> effects, versions |-> newVersions])

\* Dest.runFile(fileName, newVersions): psql starts with the stdin.
runFile(script, newVersions) ==
  /\ rfCode = "none"
  /\ rfInput' = [script |-> script, newVersions |-> newVersions,
                 before |-> versions[RunFileDest]]
  /\ rfStdin' = Include(runFileStdin(newVersions), script)
  /\ rfPos' = 1
  /\ rfCode' = "running"
  /\ UNCHANGED << versions, rfTx, rfCommitted >>

\* psql sends the next statement and the server executes it.
PsqlStatement ==
  /\ rfCode = "running"
  /\ rfPos <= Len(rfStdin)
  /\ rfPos' = rfPos + 1
  /\ UNCHANGED rfCode
  /\ LET st == rfStdin[rfPos] IN
     IF st = "BEGIN;"
     THEN /\ rfTx' = [rfTx EXCEPT !.open = TRUE]
          /\ UNCHANGED << versions, rfCommitted >>
     ELSE IF st = "COMMIT;"
     THEN /\ rfTx' = NoTx
          /\ IF rfTx.open
             THEN ServerCommit(rfTx)
             ELSE UNCHANGED << versions, rfCommitted >>
     ELSE IF st = "INSERT"
     THEN IF rfTx.open
          THEN /\ rfTx' = [rfTx EXCEPT !.effects = @ \cup {rfPos}]
               /\ UNCHANGED << versions, rfCommitted >>
          ELSE /\ Autocommit({rfPos}, Null)
               /\ UNCHANGED rfTx
     ELSE IF st = "CREATE OR REPLACE FUNCTION"
     THEN IF rfTx.open
          THEN /\ rfTx' = [rfTx EXCEPT !.versions = rfInput.newVersions]
               /\ UNCHANGED << versions, rfCommitted >>
          ELSE /\ Autocommit({}, rfInput.newVersions)
               /\ UNCHANGED rfTx
     ELSE UNCHANGED << versions, rfTx, rfCommitted >>

\* The statement raises an error: with ON_ERROR_STOP psql exits at once with
\* code 3 and the rest of the stdin is never sent.
PsqlStatementFails ==
  /\ rfCode = "running"
  /\ rfPos <= Len(rfStdin)
  /\ rfStdin[rfPos] \notin {"", ";", "\\echo"}
  /\ ConnectionEnds("3")

\* psql is interrupted while a statement is still to run: it exits without a
\* code.
PsqlInterrupted ==
  /\ rfCode = "running"
  /\ rfPos <= Len(rfStdin)
  /\ ConnectionEnds("null")

\* The stdin is at its end: psql exits with code 0.
PsqlExits ==
  /\ rfCode = "running"
  /\ rfPos > Len(rfStdin)
  /\ ConnectionEnds("0")

\* The version list the schema has when runFile is called: any prefix of its
\* chain.
InitRunFile ==
  /\ schemas = [h \in Hosts |-> BaseSchemas(h)]
  /\ versions \in {[d \in Dests |-> IF d = RunFileDest THEN v ELSE << >>] :
                     v \in {<< >>, << V1 >>, << V1, V2 >>}}
  /\ digest = [h \in Hosts |-> NoDigest]
  /\ fingerprint = [h \in Hosts |-> << >>]
  /\ databases = Hosts
  /\ InitCall
  /\ chains = << >>
  /\ PsqlIdle
  /\ GridIdle
  /\ DigestIdle
  /\ PlanIdle
  /\ CreateIdle
  /\ LoadIdle

RunFileFrame ==
  UNCHANGED << schemas, digest, fingerprint, databases, runVars, gridVars, digestVars,
               planVars, createVars, loadVars >>

\* The lists a Migration can carry as newVersions.
NewVersionsArgs == {Null, << >>, << V1 >>, << V1, V2 >>}

NextRunFile ==
  \/ (\E script \in Scripts, newVersions \in NewVersionsArgs :
        runFile(script, newVersions)) /\ RunFileFrame
  \/ PsqlStatement /\ UNCHANGED << rfInput, rfStdin >> /\ RunFileFrame
  \/ PsqlStatementFails /\ UNCHANGED << rfInput, rfStdin >> /\ RunFileFrame
  \/ PsqlInterrupted /\ UNCHANGED << rfInput, rfStdin >> /\ RunFileFrame
  \/ PsqlExits /\ UNCHANGED << rfInput, rfStdin >> /\ RunFileFrame

SpecRunFile == InitRunFile /\ [][NextRunFile]_vars

(***************************************************************************)
(* Grid.run and Worker.run, token by token (SpecGrid).                     *)
(***************************************************************************)
\* Number.POSITIVE_INFINITY: more than the workers there can be.
Infinity == 1000

\* The largest value a file gives to one of its variables.
MaxVar == 1

\* The largest --parallelism.
MaxParallelism == 2

\* What extractVars returns, a variable the file does not set as 0 (both are
\* falsy in buildFile).
Vars(g, h, a) ==
  [parallelism_global |-> g, parallelism_per_host |-> h, run_alone |-> a]

buildFile(fileName, fvars) ==
  [fileName |-> fileName,
   parallelismGlobal |->
     IF fvars.parallelism_global # 0 THEN fvars.parallelism_global ELSE Infinity,
   parallelismPerHost |->
     IF fvars.parallelism_per_host # 0 THEN fvars.parallelism_per_host ELSE Infinity,
   runAlone |-> fvars.run_alone # 0]

FileNames == {BeforeSql, AfterSql, V1, V2, V3}

\* A fleet where a version is pending on two hosts and on two schemas of one
\* host: 1.a.sh on sh1 of h1, 2.b.sh on sh1 and sh2 of h1 and on sh1 of h2.
GridSchemas(h) ==
  IF h = "h1" THEN {Str_public, Str_sh1, Str_sh2} ELSE {Str_public, Str_sh1, Str_sh3}

GridVersions(d) ==
  IF d \in {<< "h1", Str_sh2 >>, << "h2", Str_sh1 >>} THEN << V1 >>
  ELSE IF d = << "h2", Str_sh3 >> THEN << V3 >>
  ELSE << >>

NoChain == [type |-> "none", dest |-> << "", << >> >>, migrations |-> << >>]

\* new Worker(chainsQueue, semaphores): both are references, named here.
Worker(chainsQueue, semaphores) ==
  [chainsQueue |-> chainsQueue,
   semaphores |-> semaphores,
   at |-> "next",
   chain |-> NoChain,
   idx |-> 0,
   held |-> {},
   succeededMigrations |-> 0,
   errorMigrations |-> << >>]

WorkerIds == DOMAIN gWorkers

QueueIds == {<< ph, h >> : ph \in {"before", "main", "after"}, h \in Hosts}

curMigration(w) == gWorkers[w].chain.migrations[gWorkers[w].idx]

curFile(w) == gFiles[curMigration(w).file[1]]

Holds(w, token) == token \in gWorkers[w].held

\* The rwLock without a difference between readers and writers.
LockKind_alwaysRead(file) == "read"

\* migration.file.runAlone ? rwLock.writeLock() : rwLock.readLock()
LockKind(file) == IF file.runAlone THEN "write" ELSE "read"

\* The one rwLock of the module: who holds it as a reader or as a writer.
rwLockHolders(kind) ==
  {x \in WorkerIds : Holds(x, "rw") /\ LockKind(curFile(x)) = kind}

rwLockFree(kind) ==
  IF kind = "write"
  THEN rwLockHolders("write") = {} /\ rwLockHolders("read") = {}
  ELSE rwLockHolders("write") = {}

\* The key of the semaphore a token stands for.
SemaphoreKey(w, token) ==
  IF token = "global"
  THEN << curMigration(w).version >>
  ELSE << gWorkers[w].chain.dest[1], curMigration(w).version >>

\* new Semaphore(maxWorkers) of the first worker that asks for the key.
SemaphoreMax(w, token) ==
  IF token = "global"
  THEN curFile(w).parallelismGlobal
  ELSE curFile(w).parallelismPerHost

\* The workers holding a place of the semaphore w asks for: those with the
\* same map and the same key.
SemaphoreHolders(w, token) ==
  {x \in WorkerIds :
     /\ gWorkers[x].semaphores = gWorkers[w].semaphores
     /\ Holds(x, token)
     /\ SemaphoreKey(x, token) = SemaphoreKey(w, token)}

\* Grid.numErrors counting the Workers of the main and after phases only.
GridNumErrors_withoutBefore ==
  Cardinality({w \in WorkerIds : /\ gWorkers[w].chainsQueue[1] # "before"
                                 /\ Len(gWorkers[w].errorMigrations) > 0})

\* Grid.numErrors
GridNumErrors ==
  Cardinality({w \in WorkerIds : Len(gWorkers[w].errorMigrations) > 0})

chainsOfHost(list, h) == SelectSeq(list, LAMBDA c : c.dest[1] = h)

\* One Worker per before (after) chain, each with its own queue and its own
\* empty map of semaphores.
PhaseWorkers(phase, list) ==
  [i \in 1..Len(list) |->
     Worker(<< phase, list[i].dest[1] >>, << phase, list[i].dest[1] >>)]

\* One Worker per chain of the host, whatever workersPerHost is.
MainWorkers_onePerChain ==
  Flatten([i \in 1..Len(HostList) |->
             [k \in 1..Len(chainsOfHost(chains, HostList[i])) |->
                Worker(<< "main", HostList[i] >>, << "main", "*" >>)]])

\* min(chainsQueue.length, workersPerHost) Workers per host, all with the one
\* map of the main phase.
MainWorkers ==
  Flatten([i \in 1..Len(HostList) |->
             [k \in 1..Min(Len(chainsOfHost(chains, HostList[i])), gParallelism) |->
                Worker(<< "main", HostList[i] >>, << "main", "*" >>)]])

\* worker.run() called again on a Worker whose run() has returned: it runs
\* on when its queue has a chain and returns at once when it has none.
RunAgain(worker, queues) ==
  IF worker.at = "ended" /\ Len(queues[worker.chainsQueue]) > 0
  THEN [worker EXCEPT !.at = "next"]
  ELSE worker

\* this._workers.push(...) and promiseAllMap(this._workers, worker.run): the
\* Workers of the phase are added and run() is called on every Worker of the
\* Grid, those of the earlier phases included.
StartPhase(phase, list, workers) ==
  /\ gPhase' = phase
  /\ gQueues' = [q \in QueueIds |->
                   IF q[1] = phase THEN chainsOfHost(list, q[2]) ELSE gQueues[q]]
  /\ gWorkers' = [i \in DOMAIN gWorkers |-> RunAgain(gWorkers[i], gQueues')] \o workers

\* Grid.run is called: the before phase starts.
GridRun ==
  /\ gPhase = "new"
  /\ StartPhase("before", beforeChains, PhaseWorkers("before", beforeChains))
  /\ UNCHANGED << dbVars, gFiles, gParallelism, gResult, gCalls >>

\* Grid.run going on to the next phase without the await.
PhaseAwaited_notAwaited == TRUE

\* await promiseAllMap(this._workers, worker => worker.run(onChange)): the
\* run() of every Worker of the Grid has returned.
PhaseAwaited == \A w \in WorkerIds : gWorkers[w].at = "ended"

\* Grid.run returning false after an error of the main phase, without the
\* after phase.
GridAwait_afterOnlyWithoutErrors ==
  /\ gPhase \in {"before", "main", "after"}
  /\ PhaseAwaited
  /\ UNCHANGED << dbVars, gFiles, gParallelism, gCalls >>
  /\ IF gPhase \in {"before", "main"} /\ GridNumErrors > 0
     THEN /\ gPhase' = "returned"
          /\ gResult' = "false"
          /\ UNCHANGED << gWorkers, gQueues >>
     ELSE IF gPhase = "before"
          THEN /\ StartPhase("main", chains, MainWorkers)
               /\ UNCHANGED gResult
          ELSE IF gPhase = "main"
               THEN /\ StartPhase("after", afterChains, PhaseWorkers("after", afterChains))
                    /\ UNCHANGED gResult
               ELSE /\ gPhase' = "returned"
                    /\ gResult' = IF GridNumErrors = 0 THEN "true" ELSE "false"
                    /\ UNCHANGED << gWorkers, gQueues >>

\* The await of a phase returns.
GridAwait ==
  /\ gPhase \in {"before", "main", "after"}
  /\ PhaseAwaited
  /\ UNCHANGED << dbVars, gFiles, gParallelism, gCalls >>
  /\ IF gPhase = "before"
     THEN IF GridNumErrors > 0
          THEN /\ gPhase' = "returned"
               /\ gResult' = "false"
               /\ UNCHANGED << gWorkers, gQueues >>
          ELSE /\ StartPhase("main", chains, MainWorkers)
               /\ UNCHANGED gResult
     ELSE IF gPhase = "main"
          THEN /\ StartPhase("after", afterChains, PhaseWorkers("after", afterChains))
               /\ UNCHANGED gResult
          ELSE /\ gPhase' = "returned"
               /\ gResult' = IF GridNumErrors = 0 THEN "true" ELSE "false"
               /\ UNCHANGED << gWorkers, gQueues >>

\* Worker.run reading chainsQueue[0] without the shift().
WorkerRun_withoutShift(w) ==
  /\ gWorkers[w].at = "next"
  /\ UNCHANGED << dbVars, gFiles, gParallelism, gPhase, gResult, gQueues >>
  /\ LET me == gWorkers[w]
         queue == gQueues[me.chainsQueue]
     IN  IF me.idx < Len(me.chain.migrations)
         THEN /\ gWorkers' = [gWorkers EXCEPT ![w].idx = @ + 1, ![w].at = "waiting"]
              /\ UNCHANGED gCalls
         ELSE IF Len(queue) > 0
              THEN /\ gCalls' = [gCalls EXCEPT !.shift =
                                    @ (+) SetToBag({<< me.chainsQueue[1],
                                                       Head(queue).dest >>})]
                   /\ gWorkers' =
                        [gWorkers EXCEPT
                           ![w].chain = Head(queue),
                           ![w].idx = IF Len(Head(queue).migrations) > 0 THEN 1 ELSE 0,
                           ![w].at = IF Len(Head(queue).migrations) > 0
                                     THEN "waiting" ELSE "next"]
              ELSE /\ gWorkers' = [gWorkers EXCEPT ![w].chain = NoChain,
                                                   ![w].idx = 0,
                                                   ![w].at = "ended"]
                   /\ UNCHANGED gCalls

\* Worker.run up to its next await: the next migration of the chain, or of
\* the next chain shifted from the queue, and processMigration asking for its
\* three tokens; or the queue is empty and run() ends.
WorkerRun(w) ==
  /\ gWorkers[w].at = "next"
  /\ UNCHANGED << dbVars, gFiles, gParallelism, gPhase, gResult >>
  /\ LET me == gWorkers[w]
         queue == gQueues[me.chainsQueue]
     IN  IF me.idx < Len(me.chain.migrations)
         THEN /\ gWorkers' = [gWorkers EXCEPT ![w].idx = @ + 1, ![w].at = "waiting"]
              /\ UNCHANGED << gQueues, gCalls >>
         ELSE IF Len(queue) > 0
              THEN /\ gQueues' = [gQueues EXCEPT ![me.chainsQueue] = Tail(queue)]
                   /\ gCalls' = [gCalls EXCEPT !.shift =
                                    @ (+) SetToBag({<< me.chainsQueue[1],
                                                       Head(queue).dest >>})]
                   /\ gWorkers' =
                        [gWorkers EXCEPT
                           ![w].chain = Head(queue),
                           ![w].idx = IF Len(Head(queue).migrations) > 0 THEN 1 ELSE 0,
                           ![w].at = IF Len(Head(queue).migrations) > 0
                                     THEN "waiting" ELSE "next"]
              ELSE /\ gWorkers' = [gWorkers EXCEPT ![w].chain = NoChain,
                                                   ![w].idx = 0,
                                                   ![w].at = "ended"]
                   /\ UNCHANGED << gQueues, gCalls >>

\* rwLock.writeLock() or rwLock.readLock() resolves.
rwLockAcquire(w) ==
  /\ gWorkers[w].at = "waiting"
  /\ ~Holds(w, "rw")
  /\ rwLockFree(LockKind(curFile(w)))
  /\ gWorkers' = [gWorkers EXCEPT ![w].held = @ \cup {"rw"}]
  /\ UNCHANGED << dbVars, gFiles, gParallelism, gPhase, gQueues, gResult, gCalls >>

\* Worker.acquireSemaphore(maxWorkers, key) resolves.
acquireSemaphore(w, token) ==
  /\ gWorkers[w].at = "waiting"
  /\ ~Holds(w, token)
  /\ Cardinality(SemaphoreHolders(w, token)) < SemaphoreMax(w, token)
  /\ gWorkers' = [gWorkers EXCEPT ![w].held = @ \cup {token}]
  /\ UNCHANGED << dbVars, gFiles, gParallelism, gPhase, gQueues, gResult, gCalls >>

\* The three tokens are there: processMigration calls dest.runFile.
destRunFile(w) ==
  /\ gWorkers[w].at = "waiting"
  /\ gWorkers[w].held = {"rw", "global", "host"}
  /\ gWorkers' = [gWorkers EXCEPT ![w].at = "running"]
  /\ gCalls' = [gCalls EXCEPT !.runFile =
                   @ (+) SetToBag({<< gWorkers[w].chain.dest, curMigration(w).file >>})]
  /\ UNCHANGED << dbVars, gFiles, gParallelism, gPhase, gQueues, gResult >>

\* proc.on("close", (code) => ...): the psql of the Worker closes with the
\* code ("null" when a signal terminated it).
PsqlClosed(w, code) ==
  gCalls' = [gCalls EXCEPT !.closed =
               @ (+) SetToBag({<< gWorkers[w].chain.dest, curMigration(w).file, code >>})]

\* runFile returned code 0: the tokens are released and the Worker counts a
\* succeeded migration.
processMigrationReturns(w) ==
  /\ gWorkers[w].at = "running"
  /\ runFileCommit(gWorkers[w].chain.dest, curMigration(w))
  /\ PsqlClosed(w, "0")
  /\ gWorkers' = [gWorkers EXCEPT ![w].held = {},
                                  ![w].succeededMigrations = @ + 1,
                                  ![w].at = "next"]
  /\ UNCHANGED << gFiles, gParallelism, gPhase, gQueues, gResult >>

\* A signal terminated psql: its transaction is rolled back and close gives
\* the code null, which "if (res.getCode())" does not take for an error: the
\* tokens are released and the Worker counts a succeeded migration.
processMigrationKilled(w) ==
  /\ gWorkers[w].at = "running"
  /\ PsqlClosed(w, "null")
  /\ gWorkers' = [gWorkers EXCEPT ![w].held = {},
                                  ![w].succeededMigrations = @ + 1,
                                  ![w].at = "next"]
  /\ UNCHANGED << dbVars, gFiles, gParallelism, gPhase, gQueues, gResult >>

\* The catch of Worker.run returning from run() instead of leaving the chain.
processMigrationThrows_endsWorker(w) ==
  /\ gWorkers[w].at = "running"
  /\ gWorkers' = [gWorkers EXCEPT ![w].held = {},
                                  ![w].errorMigrations =
                                     Append(@, [dest |-> gWorkers[w].chain.dest,
                                                migration |-> curMigration(w).version]),
                                  ![w].chain = NoChain,
                                  ![w].idx = 0,
                                  ![w].at = "ended"]
  /\ PsqlClosed(w, "3")
  /\ UNCHANGED << dbVars, gFiles, gParallelism, gPhase, gQueues, gResult >>

\* The catch of Worker.run without the break: on to the next migration of
\* the chain.
processMigrationThrows_withoutBreak(w) ==
  /\ gWorkers[w].at = "running"
  /\ gWorkers' = [gWorkers EXCEPT ![w].held = {},
                                  ![w].errorMigrations =
                                     Append(@, [dest |-> gWorkers[w].chain.dest,
                                                migration |-> curMigration(w).version]),
                                  ![w].at = "next"]
  /\ PsqlClosed(w, "3")
  /\ UNCHANGED << dbVars, gFiles, gParallelism, gPhase, gQueues, gResult >>

\* The releases after the try block instead of in its finally: a throw
\* leaves the tokens held.
processMigrationThrows_withoutFinally(w) ==
  /\ gWorkers[w].at = "running"
  /\ gWorkers' = [gWorkers EXCEPT ![w].errorMigrations =
                                     Append(@, [dest |-> gWorkers[w].chain.dest,
                                                migration |-> curMigration(w).version]),
                                  ![w].chain = NoChain,
                                  ![w].idx = 0,
                                  ![w].at = "next"]
  /\ PsqlClosed(w, "3")
  /\ UNCHANGED << dbVars, gFiles, gParallelism, gPhase, gQueues, gResult >>

\* runFile returned another code: processMigration throws, the tokens are
\* released, the Worker records the error and leaves the chain.
processMigrationThrows(w) ==
  /\ gWorkers[w].at = "running"
  /\ gWorkers' = [gWorkers EXCEPT ![w].held = {},
                                  ![w].errorMigrations =
                                     Append(@, [dest |-> gWorkers[w].chain.dest,
                                                migration |-> curMigration(w).version]),
                                  ![w].chain = NoChain,
                                  ![w].idx = 0,
                                  ![w].at = "next"]
  /\ PsqlClosed(w, "3")
  /\ UNCHANGED << dbVars, gFiles, gParallelism, gPhase, gQueues, gResult >>

\* The files of the directory with the variables they may set, and the Grid
\* actionUndoOrApply builds for an apply on the fleet.
InitGrid ==
  /\ schemas = [h \in Hosts |-> GridSchemas(h)]
  /\ versions = [d \in Dests |-> GridVersions(d)]
  /\ digest = [h \in Hosts |-> NoDigest]
  /\ fingerprint = [h \in Hosts |-> << >>]
  /\ databases = Hosts
  /\ InitCall
  /\ chains = getChains(NoUndo)
  /\ PsqlIdle
  /\ DigestIdle
  /\ PlanIdle
  /\ CreateIdle
  /\ LoadIdle
  /\ gFiles \in
       {[f \in FileNames |->
           buildFile(f, IF f \in {BeforeSql, AfterSql} THEN b
                        ELSE IF f = V1 THEN x
                        ELSE IF f = V2 THEN y
                        ELSE Vars(0, 0, 0))] :
          b \in {Vars(0, 0, 0), Vars(MaxVar, 0, 0), Vars(0, 0, 1)},
          x \in {Vars(0, 0, 0), Vars(0, 0, 1)},
          y \in {Vars(0, 0, 0), Vars(MaxVar, 0, 0), Vars(0, MaxVar, 0),
                 Vars(0, 0, 1), Vars(MaxVar, MaxVar, 1)}}
  /\ gParallelism \in 1..MaxParallelism
  /\ gPhase = "new"
  /\ gQueues = [q \in QueueIds |-> << >>]
  /\ gWorkers = << >>
  /\ gResult = "none"
  /\ gCalls = NoCalls

GridFrame ==
  UNCHANGED << runVars, psqlVars, digestVars, planVars, createVars, loadVars >>

NextGrid ==
  \/ GridRun /\ GridFrame
  \/ GridAwait /\ GridFrame
  \/ (\E w \in WorkerIds : WorkerRun(w)) /\ GridFrame
  \/ (\E w \in WorkerIds : rwLockAcquire(w)) /\ GridFrame
  \/ (\E w \in WorkerIds, token \in {"global", "host"} : acquireSemaphore(w, token)) /\ GridFrame
  \/ (\E w \in WorkerIds : destRunFile(w)) /\ GridFrame
  \/ (\E w \in WorkerIds : processMigrationReturns(w)) /\ GridFrame
  \/ (\E w \in WorkerIds : processMigrationThrows(w)) /\ GridFrame

SpecGrid == InitGrid /\ [][NextGrid]_vars

(***************************************************************************)
(* Grid.run with psql processes that a signal may terminate                *)
(* (SpecGridKilled).                                                       *)
(***************************************************************************)
\* The Grid of InitGrid for files without limits.
InitGridPlain ==
  /\ schemas = [h \in Hosts |-> GridSchemas(h)]
  /\ versions = [d \in Dests |-> GridVersions(d)]
  /\ digest = [h \in Hosts |-> NoDigest]
  /\ fingerprint = [h \in Hosts |-> << >>]
  /\ databases = Hosts
  /\ InitCall
  /\ chains = getChains(NoUndo)
  /\ PsqlIdle
  /\ DigestIdle
  /\ PlanIdle
  /\ CreateIdle
  /\ LoadIdle
  /\ gFiles = [f \in FileNames |-> buildFile(f, Vars(0, 0, 0))]
  /\ gParallelism = MaxParallelism
  /\ gPhase = "new"
  /\ gQueues = [q \in QueueIds |-> << >>]
  /\ gWorkers = << >>
  /\ gResult = "none"
  /\ gCalls = NoCalls

NextGridKilled ==
  \/ NextGrid
  \/ (\E w \in WorkerIds : processMigrationKilled(w)) /\ GridFrame

SpecGridKilled == InitGridPlain /\ [][NextGridKilled]_vars

(***************************************************************************)
(* The loop of migrate() for any value of the parallelism option           *)
(* (SpecLoop).                                                             *)
(***************************************************************************)
\* migrate({..., parallelism}): "options.parallelism ?? 10" keeps 0, and the
\* command line gives any other integer as it is.
InitLoop ==
  /\ schemas = [h \in Hosts |-> BaseSchemas(h)]
  /\ versions = [d \in Dests |-> << >>]
  /\ digest = [h \in Hosts |-> NoDigest]
  /\ fingerprint = [h \in Hosts |-> << >>]
  /\ databases = Hosts
  /\ InitCall
  /\ chains = << >>
  /\ PsqlIdle
  /\ DigestIdle
  /\ PlanIdle
  /\ CreateIdle
  /\ LoadIdle
  /\ gCalls = NoCalls
  /\ gFiles = << >>
  /\ gParallelism \in 0..MaxParallelism
  /\ gPhase = "none"
  /\ gQueues = << >>
  /\ gWorkers = << >>
  /\ gResult = "none"

SpecLoop == InitLoop /\ [][Next]_vars

(***************************************************************************)
(* The database digest: Registry.chooseBestDigest, Dest.loadDigests and    *)
(* loadDBDigest (SpecDigest).                                              *)
(***************************************************************************)
MaxDests == 3

\* d.includes(sep)
Includes(d, sep) == \E i \in 1..Len(d) : d[i] = sep[1]

RECURSIVE InsertSorted(_, _)
InsertSorted(x, sorted) ==
  IF Len(sorted) = 0 THEN << x >>
  ELSE IF StrLess(x, sorted[1]) THEN << x >> \o sorted
  ELSE << sorted[1] >> \o InsertSorted(x, Tail(sorted))

\* lodash sortBy(list): ascending, by string comparison.
RECURSIVE sortBy(_)
sortBy(list) ==
  IF Len(list) = 0 THEN << >>
  ELSE InsertSorted(list[Len(list)], sortBy(SubSeq(list, 1, Len(list) - 1)))

Reverse(list) == [i \in 1..Len(list) |-> list[Len(list) + 1 - i]]

\* Registry.chooseBestDigest without the sorting: the first value of each
\* kind, as given.
chooseBestDigest_firstOfList(values) ==
  LET digests == SelectSeq(values, LAMBDA d : Includes(d, DIGEST_SEP))
      resets  == SelectSeq(values, LAMBDA d : ~Includes(d, DIGEST_SEP))
  IN  IF Len(digests) > 0 THEN digests[1]
      ELSE IF Len(resets) > 0 THEN << "0" >> \o DIGEST_SEP \o resets[1]
      ELSE << "0" >>

\* Registry.chooseBestDigest(values)
chooseBestDigest(values) ==
  LET digests == SelectSeq(values, LAMBDA d : Includes(d, DIGEST_SEP))
      resets  == SelectSeq(values, LAMBDA d : ~Includes(d, DIGEST_SEP))
  IN  IF Len(digests) > 0 THEN Reverse(sortBy(digests))[1]
      ELSE IF Len(resets) > 0 THEN << "0" >> \o DIGEST_SEP \o sortBy(resets)[1]
      ELSE << "0" >>

\* What the sqlRunner gives for one Dest: the query failed, or its rows
\* (no row, or the value of mig_digest_const()).
SqlError == [error |-> TRUE, row |-> Null]
SqlRow(value) == [error |-> FALSE, row |-> value]

\* lodash compact(list): without the falsy values (null and "").
compact(list) == SelectSeq(list, LAMBDA v : v # Null /\ v # << >>)

\* The per-Dest part of loadDigests: the value of the first row, null
\* without rows, and null for a failed query (whose error is kept aside).
DigestsRead(replies) ==
  [i \in 1..Len(replies) |->
     IF replies[i].error THEN Null ELSE replies[i].row]

\* Dest.loadDigests that gives up as soon as one Dest failed.
loadDigestsThrows_onAnyError(replies) ==
  \/ \E i \in 1..Len(replies) : replies[i].error
  \/ Len(compact(DigestsRead(replies))) = 0

\* Dest.loadDigests throws ("Each database out of N failed ...").
loadDigestsThrows(replies) == Len(compact(DigestsRead(replies))) = 0

\* Dest.loadDigests returns.
loadDigests(replies) == compact(DigestsRead(replies))

\* Version lists of migration directories (the last one is the directory of
\* the model), and the digests getDigest() gives for them.
Str_0_a_sh == << "0", ".", "a", ".", "s", "h" >>
Str_00_a_sh == << "0", "0", ".", "a", ".", "s", "h" >>
Directories ==
  { << >>, << Str_0_a_sh >>, << Str_00_a_sh >>, << V1 >>,
    << Str_0_a_sh, V1 >>, << V1, V2, V3 >> }
RealDigests == { getDigestOf(d) : d \in Directories }
ResetLabels == { Str_before_undo, Str_after_undo }

\* What a database can hold as mig_digest_const(), and what a Dest replies.
StoredDigests == RealDigests \cup ResetLabels
Replies == { SqlError, SqlRow(Null) } \cup { SqlRow(v) : v \in StoredDigests }

\* One Dest's query of loadDigests settles.
sqlRunner(r) ==
  /\ dgOut.state = "none"
  /\ Len(dgReplies) < MaxDests
  /\ dgReplies' = Append(dgReplies, r)
  /\ UNCHANGED dgOut

\* loadDBDigest returns chooseBestDigest(await Dest.loadDigests(dests)).
loadDBDigestReturns ==
  /\ dgOut.state = "none"
  /\ ~loadDigestsThrows(dgReplies)
  /\ dgOut' = [state |-> "returned", digests |-> loadDigests(dgReplies),
               best |-> chooseBestDigest(loadDigests(dgReplies))]
  /\ UNCHANGED dgReplies

\* loadDBDigest rejects with the error of loadDigests.
loadDBDigestThrows ==
  /\ dgOut.state = "none"
  /\ loadDigestsThrows(dgReplies)
  /\ dgOut' = [state |-> "threw", digests |-> << >>, best |-> << >>]
  /\ UNCHANGED dgReplies

InitDigest ==
  /\ InitDb
  /\ InitCall
  /\ chains = << >>
  /\ PsqlIdle
  /\ GridIdle
  /\ DigestIdle
  /\ PlanIdle
  /\ CreateIdle
  /\ LoadIdle

DigestFrame ==
  UNCHANGED << dbVars, runVars, psqlVars, gridVars, planVars, createVars, loadVars >>

NextDigest ==
  \/ (\E r \in Replies : sqlRunner(r)) /\ DigestFrame
  \/ loadDBDigestReturns /\ DigestFrame
  \/ loadDBDigestThrows /\ DigestFrame

SpecDigest == InitDigest /\ [][NextDigest]_vars

(***************************************************************************)
(* One schema planned by Patch, and its name matched by the Registry       *)
(* (SpecPlan).                                                             *)
(***************************************************************************)
MaxDbVersions == 3
MaxPrefixes == 2
MaxPlans == 2

Str_sh == << "s", "h" >>
Str_sh31 == << "s", "h", "3", "1" >>
Str_sh3old == << "s", "h", "3", "o", "l", "d" >>
Str_sh0001old1234 ==
  << "s", "h", "0", "0", "0", "1", "o", "l", "d", "1", "2", "3", "4" >>
Str_sharding == << "s", "h", "a", "r", "d", "i", "n", "g" >>

\* Names of schemas a database may have, and schema prefixes of version files.
PlanSchemas ==
  { Str_public, Str_sh, Str_sh1, Str_sh3, Str_sh31, Str_sh3old,
    Str_sh0001old1234, Str_sharding }
PlanPrefixes == { Str_sh, Str_sh3, Str_sh31, Str_public }

\* The prefixes of a directory in the order its files give them: lists
\* without a repetition.
PrefixLists ==
  UNION { { ps \in [1..n -> PlanPrefixes] : \A i, j \in 1..n : i # j => ps[i] # ps[j] } :
            n \in 0..MaxPrefixes }

\* The undo argument: a version, a version that is not on disk, or the name
\* of a file of a version.
PlanUndoArgs == UndoArgs \cup { V2 \o << ".", "d", "n", ".", "s", "q", "l" >> }

PlanDest == << "h1", plSchema >>

\* A version is persisted for the schema (by whatever run or hand): the
\* list never has a version twice.
Persist(v) ==
  /\ plOut = NoPlan
  /\ Len(plDb) < MaxDbVersions
  /\ \A i \in 1..Len(plDb) : plDb[i] # v
  /\ plDb' = Append(plDb, v)
  /\ UNCHANGED << plSchema, plOut >>

\* The next planning: the first one, or the one of the next invocation after
\* a chain was run.
CanPlan == plOut.op \in {"none", "ran"} /\ Len(plOut.ran) < MaxPlans

\* The persisted list when the first invocation started.
PlanStart == IF plOut.op = "none" THEN plDb ELSE plOut.start

\* Patch.getSchemaChain for an apply, for a schema groupBySchema has kept.
PlanApply ==
  /\ CanPlan
  /\ groupBySchema(plSchema) \notin {NoPrefix, Conflict}
  /\ plOut' = [op |-> "apply", start |-> PlanStart, ran |-> plOut.ran,
               chain |-> getSchemaChain(PlanDest, plDb, reEntriesOf(plSchema), NoUndo)]
  /\ UNCHANGED << plSchema, plDb >>

\* Patch.getChains for an undo, as far as one schema goes: the test that the
\* version is on disk, then getSchemaChain.
PlanUndo(undo) ==
  /\ CanPlan
  /\ groupBySchema(plSchema) \notin {NoPrefix, Conflict}
  /\ plOut' = [op |-> "undo", undo |-> undo, start |-> PlanStart, ran |-> plOut.ran,
               chain |-> IF ~hasVersion(extractVersion(undo))
                         THEN Throw("no such version on disk", << extractVersion(undo) >>)
                         ELSE getSchemaChain(PlanDest, plDb, reEntriesOf(plSchema), undo)]
  /\ UNCHANGED << plSchema, plDb >>

\* The Grid runs the chain planned for the schema and every runFile returns
\* code 0: each migration leaves its newVersions in the schema.
RunChain ==
  /\ plOut.op \in {"apply", "undo"}
  /\ plOut.chain.type \in {"up", "dn"}
  /\ Len(plOut.chain.migrations) > 0
  /\ plDb' = plOut.chain.migrations[Len(plOut.chain.migrations)].newVersions
  /\ plOut' = [op |-> "ran", start |-> plOut.start, ran |-> Append(plOut.ran, plOut.op)]
  /\ UNCHANGED plSchema

\* schemaNameMatchesPrefix(schema, prefix)
Match(prefix) ==
  /\ plOut = NoPlan
  /\ plOut' = [op |-> "match", prefix |-> prefix, start |-> << >>, ran |-> << >>,
               matches |-> schemaNameMatchesPrefix(plSchema, prefix)]
  /\ UNCHANGED << plSchema, plDb >>

\* new Registry(dir).groupBySchema([schema]) for a directory whose files give
\* the prefixes in the order ps: the constructor sorts them, the loop picks.
Group(ps) ==
  /\ plOut = NoPlan
  /\ plOut' = [op |-> "group", prefixes |-> ps, start |-> << >>, ran |-> << >>,
               prefix |-> groupLoop(plSchema, SortByLengthDesc(ps), NoPrefix)]
  /\ UNCHANGED << plSchema, plDb >>

InitPlan ==
  /\ InitDb
  /\ InitCall
  /\ chains = << >>
  /\ PsqlIdle
  /\ GridIdle
  /\ DigestIdle
  /\ plSchema \in PlanSchemas
  /\ plDb = << >>
  /\ plOut = NoPlan
  /\ CreateIdle
  /\ LoadIdle

PlanFrame ==
  UNCHANGED << dbVars, runVars, psqlVars, gridVars, digestVars, createVars, loadVars >>

NextPlan ==
  \/ (\E v \in UndoArgs : Persist(v)) /\ PlanFrame
  \/ PlanApply /\ PlanFrame
  \/ (\E undo \in PlanUndoArgs : PlanUndo(undo)) /\ PlanFrame
  \/ RunChain /\ PlanFrame
  \/ (\E prefix \in PlanPrefixes : Match(prefix)) /\ PlanFrame
  \/ (\E ps \in PrefixLists : Group(ps)) /\ PlanFrame

SpecPlan == InitPlan /\ [][NextPlan]_vars

(***************************************************************************)
(* Dest.createDB(onRetry): the probe of the database, its creation and the *)
(* retries (SpecCreateDB).                                                 *)
(***************************************************************************)
MaxAttempts == 3

\* The Dest of the call.
CreateHost == HostList[Len(HostList)]

\* What a query of the call may reject with: the string Dest.query throws
\* for a psql that exits with a code (its parts in order: the heading, what
\* psql printed, the SQL), or what is not a string (psql cannot be spawned).
QueryErrors ==
  { [type |-> "string",
     text |-> << "psql failed", "FATAL:", "the database system is starting up", "SQL:" >>],
    [type |-> "string",
     text |-> << "psql failed", "psql:", "could not connect to server", "SQL:" >>],
    [type |-> "string",
     text |-> << "psql failed", "psql:", "error: connection to server", "SQL:" >>],
    [type |-> "string",
     text |-> << "psql failed", "ERROR:", "permission denied to create database", "SQL:" >>],
    [type |-> "object", text |-> << "spawn psql ENOENT" >>] }

\* typeof e === "string" && (e.includes(...) || e.includes(...) || e.includes(...))
IsConnectivityError(e) ==
  /\ e.type = "string"
  /\ \/ Includes(e.text, << "the database system is starting up" >>)
     \/ Includes(e.text, << "could not connect to server" >>)
     \/ Includes(e.text, << "error: connection to server" >>)

\* dest.createDB(onRetry) is called: the probe is sent.
createDBCall ==
  /\ cdPc = "idle"
  /\ cdPc' = "probe"
  /\ UNCHANGED << dbVars, cdRetries, cdFailed, cdSlept, cdOut >>

\* The SELECT returns: the database exists, or CREATE DATABASE is sent.
probeReturns ==
  /\ cdPc = "probe"
  /\ IF CreateHost \in databases
     THEN cdPc' = "returned" /\ cdOut' = << "already-exists" >>
     ELSE cdPc' = "create" /\ cdOut' = cdOut
  /\ UNCHANGED << dbVars, cdRetries, cdFailed, cdSlept >>

\* CREATE DATABASE returns.
createReturns ==
  /\ cdPc = "create"
  /\ databases' = databases \cup {CreateHost}
  /\ cdPc' = "returned"
  /\ cdOut' = << "created" >>
  /\ UNCHANGED << schemas, versions, digest, fingerprint, cdRetries, cdFailed, cdSlept >>

\* The catch block retrying without the call of onRetry.
noDBQueryThrows_withoutOnRetry(e) ==
  /\ cdPc \in {"probe", "create"}
  /\ cdFailed < MaxAttempts
  /\ cdFailed' = cdFailed + 1
  /\ IF IsConnectivityError(e)
     THEN cdPc' = "sleep" /\ UNCHANGED << cdRetries, cdOut >>
     ELSE cdPc' = "threw" /\ cdOut' = << e >> /\ UNCHANGED cdRetries
  /\ UNCHANGED << dbVars, cdSlept >>

\* A query of the try block throws e: onRetry(e) and the timer for a
\* connectivity error, "throw e" for any other.
noDBQueryThrows(e) ==
  /\ cdPc \in {"probe", "create"}
  /\ cdFailed < MaxAttempts
  /\ cdFailed' = cdFailed + 1
  /\ IF IsConnectivityError(e)
     THEN cdPc' = "sleep" /\ cdRetries' = Append(cdRetries, e) /\ cdOut' = cdOut
     ELSE cdPc' = "threw" /\ cdOut' = << e >> /\ UNCHANGED cdRetries
  /\ UNCHANGED << dbVars, cdSlept >>

\* await setTimeout(1000) returns: continue, the probe is sent again.
timerElapsed ==
  /\ cdPc = "sleep"
  /\ cdSlept' = cdSlept + 1
  /\ cdPc' = "probe"
  /\ UNCHANGED << dbVars, cdRetries, cdFailed, cdOut >>

InitCreateDB ==
  /\ schemas = [h \in Hosts |-> BaseSchemas(h)]
  /\ versions = [d \in Dests |-> << >>]
  /\ digest = [h \in Hosts |-> NoDigest]
  /\ fingerprint = [h \in Hosts |-> << >>]
  /\ databases \in {Hosts, Hosts \ {CreateHost}}
  /\ InitCall
  /\ chains = << >>
  /\ PsqlIdle
  /\ GridIdle
  /\ DigestIdle
  /\ PlanIdle
  /\ CreateIdle
  /\ LoadIdle

CreateFrame ==
  UNCHANGED << runVars, psqlVars, gridVars, digestVars, planVars, loadVars >>

NextCreateDB ==
  \/ createDBCall /\ CreateFrame
  \/ probeReturns /\ CreateFrame
  \/ createReturns /\ CreateFrame
  \/ (\E e \in QueryErrors : noDBQueryThrows(e)) /\ CreateFrame
  \/ timerElapsed /\ CreateFrame

SpecCreateDB == InitCreateDB /\ [][NextCreateDB]_vars

(***************************************************************************)
(* validateCreateIndexConcurrently(content, vars) on one file              *)
(* (SpecValidate). A content is the sequence of its statements and         *)
(* comments; the regular expressions of the validator read it as such.     *)
(***************************************************************************)
MaxStatements == 4

IndexNames == {"a", "b"}

StCommit == [kind |-> "COMMIT", name |-> ""]
StBegin == [kind |-> "BEGIN", name |-> ""]
StOther == [kind |-> "SELECT", name |-> ""]
StComment == [kind |-> "--", name |-> ""]
StDrop(n) == [kind |-> "DROP INDEX IF EXISTS", name |-> n]
StCreate(n) == [kind |-> "CREATE INDEX CONCURRENTLY", name |-> n]

Statements ==
  {StCommit, StBegin, StOther, StComment}
    \cup {StDrop(n) : n \in IndexNames} \cup {StCreate(n) : n \in IndexNames}

Contents == UNION {[1..n -> Statements] : n \in 0..MaxStatements}

\* The comments and the leading empty statements are removed.
removeSqlComments(content) == SelectSeq(content, LAMBDA st : st # StComment)

\* Whether something follows the statement that rest continues.
hasOtherSqlStatements(rest) == Len(rest) > 0

\* REQUIRED_VARS.some((k) => !!vars[k])
SomeRequiredVar(fvars) ==
  fvars.parallelism_per_host # 0 \/ fvars.parallelism_global # 0 \/ fvars.run_alone # 0

ErrVars == [msg |-> "start with one of the following vars", name |-> ""]
ErrCommit == [msg |-> "start with COMMIT;", name |-> ""]
ErrBegin == [msg |-> "end with BEGIN;", name |-> ""]
ErrDue == [msg |-> "(due to having CREATE INDEX CONCURRENTLY)", name |-> ""]
ErrDrop(n) == [msg |-> "include DROP INDEX IF EXISTS before", name |-> n]

\* content.match(/DROP\s+INDEX\s+IF\s+EXISTS\s+<name>/): anywhere in the content.
MatchesDrop(content, n) == \E i \in DOMAIN content : content[i] = StDrop(n)

\* The matches of the regexIterator: the places of CREATE INDEX CONCURRENTLY.
RECURSIVE CreateMatches(_, _)
CreateMatches(content, i) ==
  IF i > Len(content) THEN << >>
  ELSE IF content[i].kind = "CREATE INDEX CONCURRENTLY"
       THEN << i >> \o CreateMatches(content, i + 1)
       ELSE CreateMatches(content, i + 1)

\* errors.push of the loop: a message per match whose DROP is not found.
RECURSIVE DropErrors(_, _)
DropErrors(content, matches) ==
  IF Len(matches) = 0 THEN << >>
  ELSE (IF MatchesDrop(content, content[matches[1]].name) THEN << >>
        ELSE << ErrDrop(content[matches[1]].name) >>)
       \o DropErrors(content, Tail(matches))

validateCreateIndexConcurrently(raw, fvars) ==
  LET content == removeSqlComments(raw)
      matches == CreateMatches(content, 1)
      names == [k \in DOMAIN matches |-> content[matches[k]].name]
      pushed == DropErrors(content, matches)
               \o (IF \E i \in DOMAIN content : content[i] = StBegin
                   THEN << >> ELSE << ErrBegin >>)
      unshifted == (IF Len(content) > 0 /\ content[1] = StCommit
                    THEN << >> ELSE << ErrCommit >>)
                   \o (IF SomeRequiredVar(fvars) THEN << >> ELSE << ErrVars >>)
      all == unshifted \o pushed
  IN  IF Len(matches) = 0
      THEN [type |-> "success", indexNamesQuoted |-> << >>, errors |-> << >>]
      ELSE IF matches[1] = 1 /\ ~hasOtherSqlStatements(Tail(content))
      THEN IF SomeRequiredVar(fvars)
           THEN [type |-> "success-index-alone", indexNamesQuoted |-> names,
                 errors |-> << >>]
           ELSE [type |-> "error", indexNamesQuoted |-> << >>, errors |-> << ErrVars >>]
      ELSE IF Len(all) > 0
      THEN [type |-> "error", indexNamesQuoted |-> << >>,
            errors |-> << ErrDue >> \o all]
      ELSE [type |-> "success", indexNamesQuoted |-> names, errors |-> << >>]

\* validateCreateIndexConcurrently(content, vars) is called.
validate ==
  /\ vcOut = << >>
  /\ vcOut' = << validateCreateIndexConcurrently(vcInput.content, vcInput.vars) >>
  /\ UNCHANGED << migDir, registry, vcInput >>

InitValidate ==
  /\ InitDb
  /\ InitCall
  /\ chains = << >>
  /\ PsqlIdle
  /\ GridIdle
  /\ DigestIdle
  /\ PlanIdle
  /\ CreateIdle
  /\ migDir = << >>
  /\ registry = "none"
  /\ vcInput \in [content : Contents,
                  vars : {Vars(0, 0, 0), Vars(1, 0, 0), Vars(0, 1, 0), Vars(0, 0, 1)}]
  /\ vcOut = << >>

ValidateFrame ==
  UNCHANGED << dbVars, runVars, psqlVars, gridVars, digestVars, planVars, createVars >>

NextValidate == validate /\ ValidateFrame

SpecValidate == InitValidate /\ [][NextValidate]_vars

(***************************************************************************)
(* migrate(): new Registry(options.migDir) and the call of the action      *)
(* (SpecLoad). A file name is the sequence of its parts between the dots;  *)
(* a content is its "-- $var=value" lines and its statements.              *)
(***************************************************************************)
VALID_VARS == {"$delay", "$parallelism_global", "$parallelism_per_host", "$run_alone"}

\* The parts that match \d+ among those the file names of the model have.
DigitParts == {"1", "2", "3", "4"}

PlainContent == [pairs |-> << >>, statements |-> << StOther >>]

\* A content that builds an index as the validator requires.
IndexContent ==
  [pairs |-> << << "$parallelism_global", 1 >> >>,
   statements |-> << StCommit, StDrop("a"), StCreate("a"), StBegin >>]

\* The same without COMMIT; and BEGIN;.
RejectedContent ==
  [pairs |-> << << "$parallelism_global", 1 >> >>,
   statements |-> << StDrop("a"), StCreate("a") >>]

UnknownVarContent ==
  [pairs |-> << << "$parallelism", 1 >> >>, statements |-> << StOther >>]

SqlFile(parts, content) == [name |-> parts, content |-> content]

\* The directory of the Registry of the model (DirEntries) as readdirSync
\* and sort give it.
GoodDir ==
  << SqlFile(<< "1", "a", "sh", "dn", "sql" >>, PlainContent),
     SqlFile(<< "1", "a", "sh", "up", "sql" >>, PlainContent),
     SqlFile(<< "2", "b", "sh", "dn", "sql" >>, PlainContent),
     SqlFile(<< "2", "b", "sh", "up", "sql" >>, PlainContent),
     SqlFile(<< "3", "c", "sh3", "dn", "sql" >>, PlainContent),
     SqlFile(<< "3", "c", "sh3", "up", "sql" >>, PlainContent),
     SqlFile(<< "README", "md" >>, PlainContent),
     SqlFile(<< "after", "sql" >>, PlainContent),
     SqlFile(<< "before", "sql" >>, PlainContent) >>

\* GoodDir with the content given to its i-th file.
WithContent(i, content) == [GoodDir EXCEPT ![i].content = content]

\* GoodDir without its i-th file.
Without(i) == SubSeq(GoodDir, 1, i - 1) \o SubSeq(GoodDir, i + 1, Len(GoodDir))

\* The directories of the model: GoodDir, GoodDir with an index built in
\* 3.c.sh3.up.sql, and GoodDir with one thing wrong.
LoadDirs ==
  { GoodDir,
    WithContent(6, IndexContent),
    GoodDir \o << SqlFile(<< "notes", "sql" >>, PlainContent) >>,
    SubSeq(GoodDir, 1, 6) \o << SqlFile(<< "4", "d", "up", "sql" >>, PlainContent) >>
      \o SubSeq(GoodDir, 7, 9),
    Without(3),
    WithContent(3, UnknownVarContent),
    WithContent(9, UnknownVarContent),
    WithContent(4, RejectedContent) }

\* file.endsWith(".sql")
EndsWithSql(parts) == Len(parts) >= 2 /\ parts[Len(parts)] = "sql"

\* file.match(/^((\d+\.[^.]+)\.([^.]+))\.(up|dn)\.sql$/)
MatchesFileName(parts) ==
  /\ Len(parts) = 5
  /\ parts[1] \in DigitParts
  /\ parts[2] # ""
  /\ parts[3] # ""
  /\ parts[4] \in {"up", "dn"}
  /\ parts[5] = "sql"

\* file.replace(/\.up\.(\w+)$/, ".dn.$1")
DnName(parts) == [parts EXCEPT ![4] = "dn"]

\* extractVars throws for a variable that is not one of VALID_VARS.
extractVarsThrows(content) ==
  \E i \in DOMAIN content.pairs : content.pairs[i][1] \notin VALID_VARS

\* The value extractVars gives to the variable: that of its last line, 0
\* for a variable without a line.
VarOf(content, k) ==
  LET at == {i \in DOMAIN content.pairs : content.pairs[i][1] = k}
  IN  IF at = {} THEN 0
      ELSE content.pairs[CHOOSE i \in at : \A j \in at : j <= i][2]

extractVars(content) ==
  Vars(VarOf(content, "$parallelism_global"), VarOf(content, "$parallelism_per_host"),
       VarOf(content, "$run_alone"))

\* What buildFile(dir + "/" + file) throws, << >> when it returns: the file
\* does not exist, extractVars throws, or the validator has errors (no
\* content of the model has DROP INDEX CONCURRENTLY, the other validator of
\* wrapNonTransactional).
buildFileError(dir, parts) ==
  IF \A i \in DOMAIN dir : dir[i].name # parts
  THEN << "Migration file doesn't exist" >>
  ELSE LET content == dir[CHOOSE i \in DOMAIN dir : dir[i].name = parts].content
       IN  IF extractVarsThrows(content) THEN << "Unknown variable" >>
           ELSE IF validateCreateIndexConcurrently(
                     content.statements, extractVars(content)).type = "error"
           THEN << "must satisfy the following" >>
           ELSE << >>

\* What the body of the loop of the constructor throws for the file.
FileError(dir, parts) ==
  IF ~EndsWithSql(parts) THEN << >>
  ELSE IF parts \in {<< "before", "sql" >>, << "after", "sql" >>}
  THEN buildFileError(dir, parts)
  ELSE IF ~MatchesFileName(parts)
  THEN << "Migration file must have format" >>
  ELSE IF parts[4] = "dn" THEN << >>
  ELSE IF buildFileError(dir, parts) # << >> THEN buildFileError(dir, parts)
  ELSE buildFileError(dir, DnName(parts))

RECURSIVE RegistryError(_, _)
\* What new Registry(dir) throws, from the i-th file on: the error of the
\* first file that has one, << >> when the constructor returns.
RegistryError(dir, i) ==
  IF i > Len(dir) THEN << >>
  ELSE IF FileError(dir, dir[i].name) # << >> THEN FileError(dir, dir[i].name)
  ELSE RegistryError(dir, i + 1)

RECURSIVE RegistryEntries(_, _)
\* The entries the constructor makes, in the order of the files.
RegistryEntries(dir, i) ==
  IF i > Len(dir) THEN << >>
  ELSE IF MatchesFileName(dir[i].name) /\ dir[i].name[4] = "up"
       THEN << [name |-> SubSeq(dir[i].name, 1, 3),
                schemaPrefix |-> dir[i].name[3]] >>
            \o RegistryEntries(dir, i + 1)
       ELSE RegistryEntries(dir, i + 1)

\* migrate() calling the action before it has a Registry.
migrate_withoutRegistry(o) ==
  /\ Migrate(o)
  /\ registry' = "built"

\* migrate(options): new Registry(options.migDir) throws, or the first call
\* of actionUndoOrApply begins.
migrate(o) ==
  IF RegistryError(migDir, 1) # << >>
  THEN /\ pc = "idle"
       /\ runs < MaxRuns
       /\ runs' = runs + 1
       /\ opts' = o
       /\ result' = [kind |-> "threw", at |-> "registry"]
       /\ registry' = "threw"
       /\ UNCHANGED << dbVars, pc, chains, done, errors, wtodo, failedBefore >>
  ELSE /\ Migrate(o)
       /\ registry' = "built"

InitLoad ==
  /\ InitDb
  /\ InitCall
  /\ chains = << >>
  /\ PsqlIdle
  /\ GridIdle
  /\ DigestIdle
  /\ PlanIdle
  /\ CreateIdle
  /\ migDir \in LoadDirs
  /\ registry = "none"
  /\ vcInput = << >>
  /\ vcOut = << >>

\* The invocations of SpecLoad: apply, with any dry, force and createDB.
LoadOptions == {o \in Options : o.type = "apply"}

LoadFrame ==
  UNCHANGED << psqlVars, gridVars, digestVars, planVars, createVars, migDir, vcInput,
               vcOut >>

NextLoad ==
  \/ (\E o \in LoadOptions : migrate(o)) /\ LoadFrame
  \/ createDB /\ CallFrame
  \/ PatchGetChains /\ CallFrame
  \/ (\E h \in Hosts : saveDigest(h)) /\ CallFrame
  \/ (\E h \in Hosts : saveRerunFingerprint(h)) /\ CallFrame
  \/ (\E h \in Hosts : QueryThrows(h)) /\ CallFrame
  \/ CheckFastPath /\ CallFrame
  \/ (\E c \in SeqRange(PhaseChains(pc)) : WorkerMigrationSucceeds(c)) /\ CallFrame
  \/ (\E c \in SeqRange(PhaseChains(pc)) : WorkerMigrationFails(c)) /\ CallFrame
  \/ GridBarrier /\ CallFrame
  \/ RecomputeChains /\ CallFrame
  \/ Crash /\ CallFrame

SpecLoad == InitLoad /\ [][NextLoad]_vars

(***************************************************************************)
(* Grid.run to its end, for the values a file may give to its variables    *)
(* (SpecGridFair).                                                         *)
(***************************************************************************)
\* parseInt(v.trim()) of "-- $parallelism_global=-1": extractVars takes any
\* integer and buildFile keeps every value that is not falsy.
NegativeVar == 0 - 1

\* The Grid of InitGrid for a directory where 1.a.sh may set $run_alone and
\* 2.b.sh may set one of its limits, to a positive or to a negative number,
\* and for the parallelism option from 0 on (options.parallelism ?? 10 keeps
\* a 0).
InitGridAny ==
  /\ schemas = [h \in Hosts |-> GridSchemas(h)]
  /\ versions = [d \in Dests |-> GridVersions(d)]
  /\ digest = [h \in Hosts |-> NoDigest]
  /\ fingerprint = [h \in Hosts |-> << >>]
  /\ databases = Hosts
  /\ InitCall
  /\ chains = getChains(NoUndo)
  /\ PsqlIdle
  /\ DigestIdle
  /\ PlanIdle
  /\ CreateIdle
  /\ LoadIdle
  /\ gFiles \in
       {[f \in FileNames |->
           buildFile(f, IF f = V1 THEN x
                        ELSE IF f = V2 THEN y
                        ELSE Vars(0, 0, 0))] :
          x \in {Vars(0, 0, 0), Vars(0, 0, 1)},
          y \in {Vars(0, 0, 0), Vars(MaxVar, 0, 0), Vars(0, MaxVar, 0),
                 Vars(NegativeVar, 0, 0), Vars(0, NegativeVar, 0)}}
  /\ gParallelism \in 0..MaxParallelism
  /\ gPhase = "new"
  /\ gQueues = [q \in QueueIds |-> << >>]
  /\ gWorkers = << >>
  /\ gResult = "none"
  /\ gCalls = NoCalls

\* The event loop of Node runs every continuation that is ready: a step of
\* Grid.run or of a Worker that can be taken is taken.
SpecGridFair == InitGridAny /\ [][NextGrid]_vars /\ WF_vars(NextGrid)

(***************************************************************************)
(* Properties of Grid.run (checked under SpecGrid).                        *)
(***************************************************************************)
\* Dest.runFile is in progress in Worker w.
InRunFile(w) == gWorkers[w].at = "running"

RunFileCount(S) == Cardinality({w \in S : InRunFile(w)})

\* C2: while runFile of a file with $run_alone is in progress no other
\* runFile is in progress in any Worker of any phase on any host; as every
\* runFile starts in a step of its own, such a runFile starts only when no
\* other is in progress and none starts while it runs.
C2_RunAloneIsAlone ==
  \A w \in WorkerIds :
    (InRunFile(w) /\ curFile(w).runAlone) =>
      \A x \in WorkerIds \ {w} : ~InRunFile(x)

C2_Witness ==
  \E w, x \in WorkerIds :
    /\ gPhase = "main"
    /\ InRunFile(w)
    /\ curFile(w).runAlone
    /\ curMigration(w).version = V1
    /\ gWorkers[x].at = "waiting"
    /\ gWorkers[x].held = {"global", "host"}
    /\ gWorkers[x].chain.dest[1] # gWorkers[w].chain.dest[1]

\* The Workers whose current migration is version v (on host h).
WorkersOf(v) ==
  {w \in WorkerIds : gWorkers[w].at \in {"waiting", "running"} /\ curMigration(w).version = v}

WorkersOfOn(v, h) == {w \in WorkersOf(v) : gWorkers[w].chain.dest[1] = h}

\* C3 as stated: for version files and for before.sql and after.sql alike,
\* the runFile calls in progress for one version are at most the file's
\* $parallelism_global across the hosts and at most its
\* $parallelism_per_host on each host.
C3_Original ==
  \A v \in FileNames :
    /\ RunFileCount(WorkersOf(v)) <= gFiles[v].parallelismGlobal
    /\ \A h \in Hosts : RunFileCount(WorkersOfOn(v, h)) <= gFiles[v].parallelismPerHost

\* C3, the failing case: before.sql sets $parallelism_global=1 and its
\* runFile is in progress on both hosts at once.
C3_Witness ==
  /\ gPhase = "before"
  /\ gFiles[BeforeSql].parallelismGlobal = 1
  /\ RunFileCount(WorkersOf(BeforeSql)) = 2

\* C3, what the code does keep: the limits of the version files of the main
\* phase, and the per-host limit of before.sql and after.sql (one chain per
\* host).
C3_VersionFilesLimited ==
  /\ \A v \in {V1, V2, V3} :
       RunFileCount(WorkersOf(v)) <= gFiles[v].parallelismGlobal
  /\ \A v \in FileNames : \A h \in Hosts :
       RunFileCount(WorkersOfOn(v, h)) <= gFiles[v].parallelismPerHost

(***************************************************************************)
(* Properties of Dest.runFile (checked under SpecRunFile).                 *)
(***************************************************************************)
NoOwnCommit(script) == \A i \in DOMAIN script : script[i] # "COMMIT;"

IsPrefixOf(p, list) == Len(p) <= Len(list) /\ SubSeq(list, 1, Len(p)) = p

\* The Registry chain of a schema: the names of the entries that apply to it.
RegistryChain(schema) == Names(reEntriesOf(schema))

Matched(schema) == groupBySchema(schema) \notin {NoPrefix, Conflict}

RunFailed == result.kind \in {"failure", "threw", "crashed"}

\* C4: at every moment of any sequence of apply and undo runs, failed and
\* interrupted ones included, the version list persisted for each (host,
\* schema) is a prefix of the schema's Registry chain.
C4_VersionsArePrefix ==
  \A d \in Dests : IsPrefixOf(versions[d], RegistryChain(d[2]))

C4_Witness ==
  /\ pc = "idle"
  /\ RunFailed
  /\ result.at = "main"
  /\ versions[<< "h1", Str_sh1 >>] = << V1 >>

\* C5: a step changes a version list only in the main phase, by appending the
\* one Registry entry that follows its last element (apply) or by removing
\* its last element (undo); before.sql and after.sql change no list.
C5_Change(d) ==
  /\ pc = "main"
  /\ \/ /\ opts.type = "apply"
        /\ Len(versions[d]) < Len(RegistryChain(d[2]))
        /\ versions'[d] = Append(versions[d], RegistryChain(d[2])[Len(versions[d]) + 1])
     \/ /\ opts.type = "undo"
        /\ Len(versions[d]) > 0
        /\ versions'[d] = SubSeq(versions[d], 1, Len(versions[d]) - 1)

AllApplied ==
  \A h \in Hosts : \A s \in schemas[h] :
    Matched(s) => versions[<< h, s >>] = RegistryChain(s)

\* C6 as stated: when apply returns success every matched schema has the full
\* list of its Registry entries.
C6_Original ==
  (pc = "idle" /\ result.kind = "success" /\ opts.type = "apply") => AllApplied

\* C6 amended: when an apply that is not a dry run returns success, every
\* matched schema on every host has the full list of its Registry entries.
C6_ApplyCompletes ==
  (pc = "idle" /\ result.kind = "success" /\ opts.type = "apply" /\ ~opts.dry)
    => AllApplied

C6_Witness ==
  /\ pc = "idle"
  /\ result.kind = "success"
  /\ result.at = "saveDigest"
  /\ opts.type = "apply"
  /\ versions[<< "h1", Str_sh2 >>] = << V1, V2 >>
  /\ versions[<< "h2", Str_sh3 >>] = << V3 >>

\* The state a single uninterrupted successful apply leaves behind.
AfterCleanApply ==
  /\ schemas = [h \in Hosts |-> BaseSchemas(h) \cup LateSchemas(h)]
  /\ AllApplied
  /\ \A h \in Hosts : digest[h] = getDigest
  /\ \A h \in Hosts : fingerprint[h] = buildRerunFingerprint(h)

FailedInGrid == result.kind \in {"failure", "crashed"} /\ result.at \in GridPhases

\* C8: after a run failed or was interrupted in a phase of the Grid every
\* fingerprint is empty, it stays empty up to the fast-path check of the next
\* invocation, and that check does not take the fast path.
C8_FingerprintEmptyAfterFailure ==
  /\ [](FailedInGrid /\ pc \in {"idle", "createDB", "plan", "saveBeforeUndo", "fast"}
         => \A h \in Hosts : fingerprint[h] = << >>)
  /\ [][FailedInGrid /\ pc = "fast" /\ ~opts.dry => pc' \in {"fast", "resetFingerprint", "idle"}
                                                    /\ (pc' = "idle" => result'.kind = "crashed")]_vars

C8_Witness ==
  /\ FailedInGrid
  /\ result.at = "after"
  /\ pc = "fast"
  /\ Len(chains) = 0
  /\ ~opts.force
  /\ ~opts.dry
  /\ AllApplied

\* C9 as stated: after any successful run every Dest stores getDigest().
C9_Original ==
  (pc = "idle" /\ result.kind = "success") => \A h \in Hosts : digest[h] = getDigest

\* C9 amended: after a successful apply that is not a dry run every Dest
\* stores getDigest().
C9_DigestAfterApply ==
  (pc = "idle" /\ result.kind = "success" /\ opts.type = "apply" /\ ~opts.dry)
    => \A h \in Hosts : digest[h] = getDigest

C9_Witness ==
  /\ pc = "idle"
  /\ result.kind = "success"
  /\ result.at = "saveDigestFast"
  /\ opts.type = "apply"
  /\ \A h \in Hosts : digest[h] = getDigest

\* C10: in an undo run that is not a dry run and has at least one down chain,
\* every Dest stores the reset digest before-undo at every moment from the
\* reset of the fingerprints to the end of the Grid, so that no down
\* migration starts before it is stored everywhere.
C10_ResetDigestBeforeUndo ==
  (/\ opts.type = "undo"
   /\ Len(chains) > 0
   /\ pc \in GridPhases \cup {"resetFingerprint"})
    => \A h \in Hosts : digest[h] = Str_before_undo

C10_Witness ==
  /\ opts.type = "undo"
  /\ pc = "main"
  /\ \E k \in DOMAIN done : k[1] = "main" /\ done[k] = 1
  /\ \E d \in Dests : versions[d] = << V1 >>
  /\ \A h \in Hosts : digest[h] = Str_before_undo

(***************************************************************************)
(* Properties of the database digest (checked under SpecDigest).           *)
(***************************************************************************)
ResetDigests == { << "0" >> \o DIGEST_SEP \o l : l \in ResetLabels }

\* C11: for both reset labels, the reset digest that chooseBestDigest
\* returns ("0.before-undo" or "0.after-undo") is lexicographically less
\* than every real digest getDigest() can produce.
C11_Original ==
  (dgOut.state = "returned" /\ dgOut.best \in ResetDigests)
    => \A d \in Directories : StrLess(dgOut.best, getDigestOf(d))

\* loadDBDigest returned a reset digest.
C11_Witness ==
  /\ dgOut.state = "returned"
  /\ dgOut.best \in ResetDigests
  /\ \E i \in 1..Len(dgReplies) : dgReplies[i] = SqlError

Range(list) == { list[i] : i \in 1..Len(list) }
Greatest(S) == CHOOSE x \in S : \A y \in S : y = x \/ StrLess(y, x)
Smallest(S) == CHOOSE x \in S : \A y \in S : y = x \/ StrLess(x, y)

\* What the set of values alone determines.
BestOfSet(S) ==
  LET real == { d \in S : Includes(d, DIGEST_SEP) }
  IN  IF real # {} THEN Greatest(real)
      ELSE IF S # {} THEN << "0" >> \o DIGEST_SEP \o Smallest(S)
      ELSE << "0" >>

\* C12: chooseBestDigest depends only on the set of values, not on their
\* order: with any real digest among them it returns the lexicographically
\* greatest real digest, otherwise with any reset label "0." followed by the
\* smallest label, and "0" for no value at all.
C12_ChooseBestOfSet ==
  /\ chooseBestDigest(<< >>) = << "0" >>
  /\ dgOut.state = "returned" => dgOut.best = BestOfSet(Range(dgOut.digests))

\* Two different real digests were read, the greatest not first, together
\* with a reset label.
C12_Witness ==
  /\ dgOut.state = "returned"
  /\ \E i, j \in 1..Len(dgOut.digests) :
       /\ i < j
       /\ Includes(dgOut.digests[i], DIGEST_SEP)
       /\ dgOut.digests[j] = dgOut.best
       /\ StrLess(dgOut.digests[i], dgOut.digests[j])
  /\ \E i \in 1..Len(dgOut.digests) : dgOut.digests[i] \in ResetLabels

\* The replies that carry a digest.
WithDigest(replies) == SelectSeq(replies, LAMBDA r : ~r.error /\ r.row # Null)

\* C14: Dest.loadDigests (and so loadDBDigest) fails exactly when no Dest
\* yields a digest; when at least one Dest responds, it returns exactly the
\* digests that were read successfully, and the failures of the other Dests
\* are not surfaced.
C14_LoadDigestsPartial ==
  /\ dgOut.state = "threw" => Len(WithDigest(dgReplies)) = 0
  /\ dgOut.state = "returned" =>
       /\ Len(WithDigest(dgReplies)) > 0
       /\ dgOut.digests =
            [i \in 1..Len(WithDigest(dgReplies)) |-> WithDigest(dgReplies)[i].row]

\* loadDBDigest returned although one Dest failed and one had no row.
C14_Witness ==
  /\ dgOut.state = "returned"
  /\ Len(dgOut.digests) = 1
  /\ \E i, j \in 1..Len(dgReplies) :
       dgReplies[i] = SqlError /\ dgReplies[j] = SqlRow(Null)

(***************************************************************************)
(* Properties of Dest.saveDigests (checked under Spec).                    *)
(***************************************************************************)
SaveDigestsPcs == {"saveBeforeUndo", "saveDigestFast", "saveDigest", "saveAfterUndo"}

\* C13: Dest.saveDigests tolerates partial failure: when the write has
\* succeeded on some Dest and fails on another, saveDigests does not fail and
\* the run is not aborted.
C13_Original ==
  [][(pc \in SaveDigestsPcs /\ wtodo # {} /\ wtodo # Hosts)
       => ~(result'.kind = "threw" /\ result'.at = pc)]_vars

\* A saveDigests call of an apply threw after h1 was written and h2 was not.
C13_Witness ==
  /\ result.kind = "threw"
  /\ result.at = "saveDigest"
  /\ digest["h1"] = getDigest
  /\ digest["h2"] # getDigest

(***************************************************************************)
(* Properties of the phases and the Workers of Grid.run (checked under     *)
(* SpecGrid).                                                              *)
(***************************************************************************)
\* The Workers made for the chains of a phase.
WorkersOfPhase(phase) == {w \in WorkerIds : gWorkers[w].chainsQueue[1] = phase}

\* Every runFile of the chains of a phase has finished: no chain is left in
\* a queue of the phase and every Worker made for it has returned.
PhaseFinished(phase) ==
  /\ \A h \in Hosts : gQueues[<< phase, h >>] = << >>
  /\ \A w \in WorkersOfPhase(phase) : gWorkers[w].at = "ended"

\* C15: the phases are barriers: no runFile of a main chain starts before
\* every runFile of the before chains has finished, and no runFile of an
\* after chain starts before every runFile of the main chains has finished.
C15_PhaseBarriers ==
  \A w \in WorkerIds :
    InRunFile(w) =>
      /\ w \in WorkersOfPhase("main") => PhaseFinished("before")
      /\ w \in WorkersOfPhase("after") =>
           PhaseFinished("before") /\ PhaseFinished("main")

\* after.sql is running on a host after both chains of h1 were run by two
\* Workers of the main phase.
C15_Witness ==
  /\ \E w \in WorkersOfPhase("after") : InRunFile(w)
  /\ Cardinality({w \in WorkersOfPhase("main") :
                    gWorkers[w].succeededMigrations > 0}) >= 2
  /\ Cardinality(WorkersOfPhase("before")) = 2

\* A Worker of the before phase has recorded an error.
BeforeFailed ==
  \E w \in WorkersOfPhase("before") : Len(gWorkers[w].errorMigrations) > 0

\* C16: when any Worker of the before phase records an error, Grid.run
\* returns false without ever starting a migration of a main chain on any
\* host.
C16_BeforeErrorStopsRun ==
  BeforeFailed =>
    /\ gPhase \in {"before", "returned"}
    /\ WorkersOfPhase("main") = {}
    /\ \A h \in Hosts : gQueues[<< "main", h >>] = << >>
    /\ versions = [d \in Dests |-> GridVersions(d)]
    /\ gPhase = "returned" => gResult = "false"

\* Grid.run has returned after before.sql failed on h2 and succeeded on h1.
C16_Witness ==
  /\ gPhase = "returned"
  /\ \E w, x \in WorkersOfPhase("before") :
       /\ gWorkers[w].errorMigrations =
            << [dest |-> << "h2", DEFAULT_SCHEMA >>, migration |-> BeforeSql] >>
       /\ gWorkers[x].succeededMigrations = 1

\* A Worker of the main phase has recorded an error.
MainFailed ==
  \E w \in WorkersOfPhase("main") : Len(gWorkers[w].errorMigrations) > 0

\* The runFile of the after chain of host h was called and has returned.
AfterChainExecuted(h) ==
  \E w \in WorkersOfPhase("after") :
    /\ gWorkers[w].chainsQueue[2] = h
    /\ gWorkers[w].at = "ended"
    /\ \/ gWorkers[w].succeededMigrations = 1 /\ gWorkers[w].errorMigrations = << >>
       \/ /\ gWorkers[w].succeededMigrations = 0
          /\ gWorkers[w].errorMigrations =
               << [dest |-> << h, DEFAULT_SCHEMA >>, migration |-> AfterSql] >>

ErrorsOf(w) == { gWorkers[w].errorMigrations[i] : i \in 1..Len(gWorkers[w].errorMigrations) }

\* The chain of the error e is left: no Worker is on it, and the version that
\* failed and the ones after it are not in the database.
ChainLeft(e) ==
  /\ \A x \in WorkerIds : gWorkers[x].chain.dest # e.dest
  /\ e.migration \in {V1, V2, V3} =>
       \A i \in 1..Len(versions[e.dest]) : ~StrLess(e.migration, versions[e.dest][i])
                                           /\ versions[e.dest][i] # e.migration

\* A runFile of Worker w returns a non-zero code in this step.
Fails(w) ==
  /\ w \in WorkerIds
  /\ InRunFile(w)
  /\ gWorkers'[w].errorMigrations # gWorkers[w].errorMigrations

\* C18: when a migration's runFile returns a non-zero code, the Worker
\* records one error (dest, migration), runs none of the remaining
\* migrations of that chain and continues with the next chain of its queue
\* (it returns only with the queue empty); the chains of the other Workers
\* are never cancelled.
C18_ErrorLeavesChainOnly ==
  /\ [](\A w \in WorkerIds :
          /\ \A e \in ErrorsOf(w) : ChainLeft(e)
          /\ gWorkers[w].at = "ended" => gQueues[gWorkers[w].chainsQueue] = << >>)
  /\ [][\A w \in WorkerIds :
          Fails(w) =>
            /\ gWorkers'[w].errorMigrations =
                 Append(gWorkers[w].errorMigrations,
                        [dest |-> gWorkers[w].chain.dest,
                         migration |-> curMigration(w).version])
            /\ gWorkers'[w].succeededMigrations = gWorkers[w].succeededMigrations
            /\ gWorkers'[w].at # "ended"
            /\ \A x \in WorkerIds \ {w} : gWorkers'[x] = gWorkers[x]
            /\ gQueues' = gQueues
            /\ UNCHANGED dbVars]_vars

\* The one Worker of h1 recorded the failure of the first migration of the
\* chain of sh1 (two migrations) and then ran the chain of sh2, while the
\* Worker of h2 ran its chain.
C18_Witness ==
  /\ gParallelism = 1
  /\ \E w, x \in WorkersOfPhase("main") :
       /\ gWorkers[w].errorMigrations =
            << [dest |-> << "h1", Str_sh1 >>, migration |-> V1] >>
       /\ gWorkers[w].succeededMigrations = 1
       /\ versions[<< "h1", Str_sh1 >>] = << >>
       /\ versions[<< "h1", Str_sh2 >>] = << V1, V2 >>
       /\ gWorkers[x].chainsQueue[2] = "h2"
       /\ gWorkers[x].succeededMigrations = 1

\* Worker w is on a migration of its chain: waiting for its tokens or in
\* runFile.
OnMigration(w) == gWorkers[w].at \in {"waiting", "running"}

NumChainsOf(h) == Cardinality({i \in 1..Len(chains) : chains[i].dest[1] = h})

\* The Workers of the main phase of host h, and those with a chain.
MainWorkersOf(h) == {w \in WorkersOfPhase("main") : gWorkers[w].chainsQueue[2] = h}
BusyMainWorkersOf(h) == {w \in MainWorkersOf(h) : gWorkers[w].chain # NoChain}

\* C20: the main phase starts exactly min(number of chains of the host,
\* workersPerHost) Workers per host, so at most workersPerHost chains of one
\* host are executed at any moment.
C20_WorkersPerHost ==
  \A h \in Hosts :
    /\ gPhase \in {"main", "after"} =>
         Cardinality(MainWorkersOf(h)) =
           IF NumChainsOf(h) < gParallelism THEN NumChainsOf(h) ELSE gParallelism
    /\ Cardinality(BusyMainWorkersOf(h)) <= gParallelism
    /\ Cardinality({gWorkers[w].chain.dest : w \in BusyMainWorkersOf(h)})
         = Cardinality(BusyMainWorkersOf(h))

\* workersPerHost is 1 and h1 has two chains: its one Worker is in runFile
\* for one of them while the other chain waits in the queue.
C20_Witness ==
  /\ gParallelism = 1
  /\ NumChainsOf("h1") = 2
  /\ Len(gQueues[<< "main", "h1" >>]) = 1
  /\ \E w \in MainWorkersOf("h1") : InRunFile(w)

(***************************************************************************)
(* Properties of Patch and of the Registry's matching (checked under       *)
(* SpecPlan).                                                              *)
(***************************************************************************)
\* The names of the schema's Registry entries.
EntryNames == Names(reEntriesOf(plSchema))

\* The first position, present in both lists, where the persisted list
\* differs from the entries; 0 without one.
FirstDifference ==
  LET both == 1..Min(Len(plDb), Len(EntryNames))
      diff == {i \in both : plDb[i] # EntryNames[i]}
  IN  IF diff = {} THEN 0 ELSE CHOOSE i \in diff : \A j \in diff : i <= j

\* C21: planning an apply fails with a timeline-violation error naming both
\* versions, entries[i] (asked to apply) and persisted[i] (already applied),
\* whenever the persisted list differs from the entries at a position i
\* present in both lists (the first such position); it fails with a
\* missing-on-disk error when the persisted list agrees with all entries but
\* has extra versions after them; and it does not fail otherwise.
C21_TimelineErrors ==
  plOut.op = "apply" =>
    IF FirstDifference > 0
    THEN plOut.chain = [type |-> "throw", msg |-> "timeline violation",
                        named |-> << EntryNames[FirstDifference],
                                     plDb[FirstDifference] >>]
    ELSE IF Len(plDb) > Len(EntryNames)
         THEN /\ plOut.chain.type = "throw"
              /\ plOut.chain.msg = "missing on disk"
              /\ plOut.chain.named = << plDb[Len(EntryNames) + 1] >>
         ELSE plOut.chain.type = "up"

\* The entries of sh1 are V1, V2 and it persists V1, V3: the apply was
\* planned and failed naming V2 and V3.
C21_Witness ==
  /\ plOut.op = "apply"
  /\ plSchema = Str_sh1
  /\ plDb = << V1, V3 >>
  /\ plOut.chain.type = "throw"
  /\ plOut.chain.named = << V2, V3 >>

\* The version an undo was planned for.
UndoVersion == extractVersion(plOut.undo)

IsLast(v) == Len(plDb) > 0 /\ plDb[Len(plDb)] = v
InMiddle(v) == \E i \in 1..(Len(plDb) - 1) : plDb[i] = v

\* The chain of exactly one migration that undoes v.
UndoChain(v) ==
  [type |-> "dn",
   dest |-> PlanDest,
   migrations |-> << [version |-> v, file |-> << v, << "d", "n" >> >>,
                      newVersions |-> SubSeq(plDb, 1, Len(plDb) - 1)] >>]

\* C22 as stated: for undo=V (a version on disk), Patch emits for a schema
\* the chain of exactly one migration (V's dn file, newVersions = the
\* persisted list without its last element) if and only if V is the last
\* element of the persisted list; it fails if V is at a non-last position;
\* and it emits nothing where V was never applied.
C22_Original ==
  (plOut.op = "undo" /\ hasVersion(UndoVersion)) =>
    /\ plOut.chain = UndoChain(UndoVersion) <=> IsLast(UndoVersion)
    /\ InMiddle(UndoVersion) => plOut.chain.type = "throw"
    /\ ~IsLast(UndoVersion) /\ ~InMiddle(UndoVersion) => plOut.chain.type = "null"

\* C22: for undo=V, a version on disk, Patch emits for a schema the chain of
\* exactly one migration (V's dn file, newVersions = the persisted list
\* without its last element) if and only if V is the last element of the
\* persisted list and one of the schema's entries; with V last and not among
\* the schema's entries, and with V at a non-last position, the planning
\* fails; it emits nothing where V was never applied.
C22_UndoOnlyTheLatest ==
  (plOut.op = "undo" /\ hasVersion(UndoVersion)) =>
    /\ plOut.chain = UndoChain(UndoVersion)
         <=> (IsLast(UndoVersion) /\ UndoVersion \in SeqRange(EntryNames))
    /\ IsLast(UndoVersion) /\ UndoVersion \notin SeqRange(EntryNames) =>
         plOut.chain = [type |-> "throw", msg |-> "no such version on disk",
                        named |-> << UndoVersion >>]
    /\ InMiddle(UndoVersion) =>
         plOut.chain.type = "throw" /\ plOut.chain.msg = "undo in the middle"
    /\ ~IsLast(UndoVersion) /\ ~InMiddle(UndoVersion) => plOut.chain.type = "null"

\* sh1 persists V1, V2 and was planned for the undo of the file name of V2:
\* one migration back to V1.
C22_Witness ==
  /\ plOut.op = "undo"
  /\ plSchema = Str_sh1
  /\ plDb = << V1, V2 >>
  /\ plOut.undo # V2
  /\ plOut.chain.type = "dn"
  /\ plOut.chain.migrations[1].newVersions = << V1 >>

\* An undo and then an apply were planned and run to success.
UndoneAndApplied == plOut.op = "ran" /\ plOut.ran = << "undo", "apply" >>

\* C23 as stated: for any schema whose last applied version is V, running
\* undo=V to success and then immediately apply to success with the same
\* files leaves the schema's persisted list equal to its value before the
\* undo.
C23_Original == UndoneAndApplied => plDb = plOut.start

\* C23: an undo=V run to success and then an apply run to success with the
\* same files leave the schema with all its Registry entries applied, which
\* is its list before the undo when all of them were applied before the undo.
C23_UndoThenApply ==
  UndoneAndApplied =>
    /\ plDb = EntryNames
    /\ plOut.start = EntryNames => plDb = plOut.start

\* sh1 had V1, V2, the undo of V2 and the apply were run, and it has V1, V2.
C23_Witness ==
  /\ UndoneAndApplied
  /\ plSchema = Str_sh1
  /\ plOut.start = << V1, V2 >>
  /\ plDb = << V1, V2 >>

(***************************************************************************)
(* Properties of the fast path and of the dry run (checked under Spec).    *)
(***************************************************************************)
\* The apply is at its fast-path test with nothing to run, the rerun
\* fingerprint of every Dest non-empty and equal to the one built, no force.
FastPathCase ==
  /\ pc = "fast"
  /\ opts.type = "apply"
  /\ Len(chains) = 0
  /\ \A h \in Hosts : fingerprint[h] # << >> /\ fingerprint[h] = buildRerunFingerprint(h)
  /\ ~opts.force

\* The step is the interruption of the process.
Interrupted == pc' = "idle" /\ result'.kind = "crashed"

\* From the fast-path test the action saves the digest and does nothing else.
SavesDigestOnly ==
  /\ ~Interrupted => pc' = "saveDigestFast" /\ UNCHANGED dbVars

\* During the save of the fast path no script runs, the version lists and
\* the fingerprints stay, and the call returns success once every Dest has
\* the code digest (or throws with a failed write).
SaveOfFastPath ==
  pc = "saveDigestFast" =>
    /\ UNCHANGED << schemas, versions, fingerprint >>
    /\ \/ pc' = "saveDigestFast"
       \/ /\ pc' = "idle"
          /\ result'.kind \in {"success", "threw", "crashed"}
          /\ result'.kind = "success" => \A h \in Hosts : digest'[h] = getDigest

\* C24 as stated: with no pending chains, matching non-empty fingerprints
\* and no force, an apply (dry or not) runs no script, leaves the version
\* lists and fingerprints, writes the code digest to every Dest and returns
\* success.
C24_Original ==
  [][(FastPathCase => SavesDigestOnly) /\ SaveOfFastPath]_vars

\* C24: with no pending chains, matching non-empty fingerprints, no force
\* and no dry, an apply runs no script, leaves the version lists and the
\* fingerprints unchanged, writes the code digest to every Dest and returns
\* success.
C24_FastPath ==
  [][((FastPathCase /\ ~opts.dry) => SavesDigestOnly) /\ SaveOfFastPath]_vars

\* The second invocation, an apply without force, took the fast path and
\* returned success with everything applied.
C24_Witness ==
  /\ pc = "idle"
  /\ runs = 2
  /\ result = [kind |-> "success", at |-> "saveDigestFast"]
  /\ ~opts.force
  /\ ~opts.dry
  /\ AllApplied
  /\ \A h \in Hosts : fingerprint[h] = buildRerunFingerprint(h)
  /\ \A h \in Hosts : digest[h] = getDigest

\* An invocation with dry is under way.
DryCall == opts.dry /\ pc # "idle"

\* C25: during an invocation with dry nothing is mutated: no database is
\* created, no script is executed, no digest, fingerprint or version list
\* is written.
C25_Original ==
  [][DryCall => UNCHANGED dbVars]_vars

\* What the dry invocation does keep: the schemas, the version lists, the
\* digests and the fingerprints of every Dest.
C25_DryKeepsSchemas ==
  [][DryCall => UNCHANGED << schemas, versions, digest, fingerprint >>]_vars

\* A dry apply with createDB is at its createDB loop and the database of a
\* host does not exist.
C25_Witness ==
  /\ pc = "createDB"
  /\ opts.dry
  /\ databases # Hosts

(***************************************************************************)
(* Properties of the Registry's matching of schemas to prefixes (checked   *)
(* under SpecPlan).                                                        *)
(***************************************************************************)
\* The prefixes of the directory that match the schema.
MatchingPrefixes ==
  { p \in Range(plOut.prefixes) : schemaNameMatchesPrefix(plSchema, p) }

\* C26: groupBySchema maps the schema to the entries of exactly one prefix,
\* the longest of the prefixes that match it under schemaNameMatchesPrefix
\* (no shorter matching prefix is applied, and it never throws), and a
\* schema that matches no prefix is absent from the result.
C26_LongestPrefix ==
  plOut.op = "group" =>
    IF MatchingPrefixes = {}
    THEN plOut.prefix = NoPrefix
    ELSE /\ plOut.prefix \in MatchingPrefixes
         /\ \A q \in MatchingPrefixes \ {plOut.prefix} : Len(q) < Len(plOut.prefix)

\* The schema sh31 of a directory that gives the prefix sh before the prefix
\* sh31 is mapped to the entries of sh31.
C26_Witness ==
  /\ plOut.op = "group"
  /\ plSchema = Str_sh31
  /\ plOut.prefixes = << Str_sh, Str_sh31 >>
  /\ plOut.prefix = Str_sh31

\* The characters of the schema name after the prefix, when the name is the
\* prefix followed by them.
RestsAfter(s, p) ==
  { t \in { SubSeq(s, k, Len(s)) : k \in 1..(Len(s) + 1) } : s = p \o t }

\* The name contains a digit.
ContainsDigit(p) == \E c \in Range(p) : IsDigit(c)

\* C27: schemaNameMatchesPrefix(s, p) is true if and only if s equals p, or
\* s starts with p and either the character of s right after p is a digit
\* or p itself contains a digit; so sh matches sh0001old1234 but not
\* sharding, and public matches public.
C27_MatchesPrefix ==
  plOut.op = "match" =>
    /\ plOut.matches <=>
         \/ plSchema = plOut.prefix
         \/ \E t \in RestsAfter(plSchema, plOut.prefix) :
              \/ t # << >> /\ IsDigit(t[1])
              \/ ContainsDigit(plOut.prefix)
    /\ plSchema = Str_sh0001old1234 /\ plOut.prefix = Str_sh => plOut.matches
    /\ plSchema = Str_sh1 /\ plOut.prefix = Str_sh => plOut.matches
    /\ plSchema = Str_sharding /\ plOut.prefix = Str_sh => ~plOut.matches
    /\ plSchema = Str_public /\ plOut.prefix = Str_public => plOut.matches

\* sh3old was matched against the prefix sh3, which has a digit, and matches
\* although no digit follows the prefix.
C27_Witness ==
  /\ plOut.op = "match"
  /\ plSchema = Str_sh3old
  /\ plOut.prefix = Str_sh3
  /\ plOut.matches

(***************************************************************************)
(* Properties of the queues and of the tokens of the Workers (checked      *)
(* under SpecGrid).                                                        *)
(***************************************************************************)
\* How many times the chain of a Dest was shifted from a queue of the phase.
Shifts(phase, dest) == CopiesIn(<< phase, dest >>, gCalls.shift)

\* How many times the chain is in the queue of its host.
Queued(phase, c) ==
  LET queue == gQueues[<< phase, c.dest[1] >>]
  IN  Cardinality({i \in DOMAIN queue : queue[i] = c})

\* The Workers of the phase that are on the chain of the Dest.
WorkersOn(phase, dest) ==
  {w \in WorkersOfPhase(phase) : gWorkers[w].chain.dest = dest}

\* The await of the main phase has returned.
MainAwaited == gPhase = "after" \/ (gPhase = "returned" /\ ~BeforeFailed)

C29_Original ==
  \A w \in WorkerIds :
    /\ Holds(w, "host") => Holds(w, "global")
    /\ Holds(w, "global") => Holds(w, "rw")

\* A file with $run_alone is running under the write lock, and a Worker on
\* another Dest, whose readLock() cannot resolve, holds the global semaphore
\* of its version while it waits.
C29_Witness ==
  \E w, x \in WorkerIds :
    /\ InRunFile(w)
    /\ LockKind(curFile(w)) = "write"
    /\ gWorkers[x].at = "waiting"
    /\ ~Holds(x, "rw")
    /\ ~rwLockFree(LockKind(curFile(x)))
    /\ Holds(x, "global")

(***************************************************************************)
(* Termination of Grid.run (checked under SpecGridFair).                   *)
(***************************************************************************)
\* The token can be given to the Worker now.
Grantable(w, token) ==
  IF token = "rw"
  THEN rwLockFree(LockKind(curFile(w)))
  ELSE Cardinality(SemaphoreHolders(w, token)) < SemaphoreMax(w, token)

\* Grid.run awaits Workers none of which can take a step: each has ended
\* or waits for a token that cannot be given to it.
Stuck ==
  /\ gPhase \in {"before", "main", "after"}
  /\ ~PhaseAwaited
  /\ \A w \in WorkerIds :
       \/ gWorkers[w].at = "ended"
       \/ /\ gWorkers[w].at = "waiting"
          /\ gWorkers[w].held # {"rw", "global", "host"}
          /\ \A token \in {"rw", "global", "host"} \ gWorkers[w].held :
               ~Grantable(w, token)

\* C30: Grid.run terminates, every runFile returning: for any chains, any
\* workersPerHost and any values of $run_alone, $parallelism_global and
\* $parallelism_per_host that the load accepts, no Worker waits forever for
\* the RW-lock or for a semaphore.
C30_Original == <>(gPhase = "returned")

\* 2.b.sh sets $parallelism_global=-1: every Worker that got to it waits
\* for a semaphore that gives no place, the others have ended, and Grid.run
\* awaits them.
C30_Witness ==
  /\ Stuck
  /\ gPhase = "main"
  /\ gFiles[V2].parallelismGlobal = NegativeVar
  /\ \E w \in WorkerIds :
       /\ gWorkers[w].at = "waiting"
       /\ curMigration(w).version = V2
       /\ gWorkers[w].held = {"rw", "host"}

\* What does hold: when no file sets a negative limit Grid.run returns.
C30_TerminatesWithoutNegative ==
  (/\ gPhase = "new"
   /\ gFiles[V2].parallelismGlobal > 0
   /\ gFiles[V2].parallelismPerHost > 0) => <>(gPhase = "returned")

(***************************************************************************)
(* Properties of the tokens at the end of processMigration and of the      *)
(* result of Grid.run (checked under SpecGrid).                            *)
(***************************************************************************)
\* The Worker is in processMigration: it waits for its tokens or runs the
\* file.
InProcessMigration(w) == gWorkers[w].at \in {"waiting", "running"}

\* C31: whenever processMigration has ended, by success or by a throw (a
\* non-zero exit code or an exception of runFile), the Worker holds neither
\* the RW-lock nor a semaphore; so when Grid.run has returned no token is
\* held and the RW-lock of the process is free for the next Grid.run.
C31_TokensReleased ==
  /\ \A w \in WorkerIds : ~InProcessMigration(w) => gWorkers[w].held = {}
  /\ gPhase = "returned" =>
       /\ \A w \in WorkerIds : gWorkers[w].held = {}
       /\ rwLockFree("write")

\* Grid.run has returned false after 1.a.sh, a file with $run_alone, threw
\* under the write lock: no Worker holds a token.
C31_Witness ==
  /\ gPhase = "returned"
  /\ gResult = "false"
  /\ gFiles[V1].runAlone
  /\ \E w \in WorkersOfPhase("main") :
       \E i \in DOMAIN gWorkers[w].errorMigrations :
         gWorkers[w].errorMigrations[i].migration = V1
  /\ \A w \in WorkerIds : gWorkers[w].held = {}
  /\ rwLockFree("write")

\* dest.runFile was called for the migration of the chain.
RunFileCalled(c, i) ==
  CopiesIn(<< c.dest, c.migrations[i].file >>, gCalls.runFile) > 0

\* A Worker recorded an error for the migration of the chain.
RunFileFailed(c, i) ==
  \E w \in WorkerIds :
    \E k \in DOMAIN gWorkers[w].errorMigrations :
      gWorkers[w].errorMigrations[k] =
        [dest |-> c.dest, migration |-> c.migrations[i].version]

\* Every migration of the chains of the list was executed and its runFile
\* gave the code 0.
AllExecuted(list) ==
  \A n \in DOMAIN list :
    \A i \in DOMAIN list[n].migrations :
      RunFileCalled(list[n], i) /\ ~RunFileFailed(list[n], i)

\* C32: Grid.run returns true if and only if every migration of every
\* before, main and after chain was executed and its runFile completed with
\* the exit code 0; it never returns true with a chain left unexecuted.
C32_Original ==
  gPhase = "returned" =>
    (gResult = "true" <=>
       AllExecuted(beforeChains) /\ AllExecuted(chains) /\ AllExecuted(afterChains))

\* What does hold: the same with at least one Worker per host.
C32_TrueIffAllExecuted ==
  (gPhase = "returned" /\ gParallelism >= 1) =>
    (gResult = "true" <=>
       AllExecuted(beforeChains) /\ AllExecuted(chains) /\ AllExecuted(afterChains))

\* Grid.run has returned true with workersPerHost = 0: before.sql and
\* after.sql ran on both hosts, no Worker was made for the main phase and
\* the three chains are still in the queues.
C32_Witness ==
  /\ gPhase = "returned"
  /\ gResult = "true"
  /\ gParallelism = 0
  /\ WorkersOfPhase("main") = {}
  /\ Len(chains) = 3
  /\ \A i \in DOMAIN chains : Queued("main", chains[i]) = 1
  /\ BagCardinality(gCalls.runFile) = 4

(***************************************************************************)
(* Properties of the stored digests and of the planning over the runs      *)
(* (checked under Spec).                                                   *)
(***************************************************************************)
\* What loadDigests reads when every query succeeds: the digests the Dests
\* store, in Dest order.
StoredDigestList ==
  compact([i \in 1..Len(HostList) |-> digest[HostList[i]]])

\* C33: at every moment of every sequence of apply and undo runs, when
\* chooseBestDigest over the stored digests is the digest of the Registry,
\* every matched schema of every host has all the versions of the Registry
\* applied: the database is never behind the best stored digest.
C33_NeverBehindDigest ==
  (Len(StoredDigestList) > 0 /\ chooseBestDigest(StoredDigestList) = getDigest)
    => AllApplied

\* An undo was interrupted while it stored before-undo: one Dest has the
\* reset digest, the other still the digest of the Registry, which is the
\* best one, and nothing was undone.
C33_Witness ==
  /\ pc = "idle"
  /\ opts.type = "undo"
  /\ result.kind \in {"crashed", "threw"}
  /\ \E h \in Hosts : digest[h] = Str_before_undo
  /\ chooseBestDigest(StoredDigestList) = getDigest
  /\ AllApplied

\* patch.getChains() is about to throw for some schema of some host.
PlanningFails == getChainsThrows(ModeUndo(opts))

\* The step writes no version list, digest or fingerprint and runs no
\* script.
NoMutation == UNCHANGED << schemas, versions, digest, fingerprint >>

\* C34: when the planning fails for a schema of a host the run fails before
\* any mutation: the steps of an invocation up to the planning write
\* nothing and run no script, the failing planning ends the invocation
\* with a throw and changes nothing, and a planning that follows the
\* mutations of an earlier pass (the second getChains of an apply and the
\* planning of the next pass) does not fail.
C34_PlanningFailsFirst ==
  /\ []((pc = "replan" \/ (pc = "plan" /\ result.kind = "more")) => ~PlanningFails)
  /\ [][/\ pc \in {"idle", "createDB"} => NoMutation
        /\ (pc = "plan" /\ PlanningFails) =>
             /\ pc' = "idle"
             /\ result'.kind \in {"threw", "crashed"}
             /\ UNCHANGED dbVars]_vars

\* An apply on the fleet where sh1 of h1 has 2.b.sh without 1.a.sh threw in
\* its planning (timeline violation) and nothing was written on any host.
C34_Witness ==
  /\ pc = "idle"
  /\ opts.type = "apply"
  /\ result = [kind |-> "threw", at |-> "plan"]
  /\ versions = [d \in Dests |-> IF d = << "h1", Str_sh1 >> THEN << V2 >> ELSE << >>]
  /\ schemas = [h \in Hosts |-> BaseSchemas(h)]
  /\ \A h \in Hosts : digest[h] = NoDigest /\ fingerprint[h] = << >>

(***************************************************************************)
(* A psql that closes without the code 0 (checked under SpecGridKilled).   *)
(***************************************************************************)
\* The psql of the migration of the chain closed with the code.
ClosedWith(c, i, code) ==
  CopiesIn(<< c.dest, c.migrations[i].file, code >>, gCalls.closed) > 0

\* The closes of the Grid with the code.
Closes(code) ==
  BagCardinality(
    [e \in {x \in BagToSet(gCalls.closed) : x[3] = code} |-> CopiesIn(e, gCalls.closed)])

RECURSIVE SucceededUpTo(_)
\* succeededMigrations of the first n Workers together.
SucceededUpTo(n) ==
  IF n = 0 THEN 0 ELSE gWorkers[n].succeededMigrations + SucceededUpTo(n - 1)

\* A psql of the chains of the list that closed with one of the codes has an
\* error of its migration, and no later migration of its chain was run.
ClosedIsError(list, codes) ==
  \A n \in DOMAIN list :
    \A i \in DOMAIN list[n].migrations :
      (\E code \in codes : ClosedWith(list[n], i, code)) =>
        /\ RunFileFailed(list[n], i)
        /\ \A j \in DOMAIN list[n].migrations : j > i => ~RunFileCalled(list[n], j)

\* C35: when the psql of a migration closes without the exit code 0, a
\* signal that terminated it included, the Worker records an error for the
\* migration, does not count it as succeeded and does not go on with the
\* rest of the chain.
C35_Original ==
  /\ ClosedIsError(beforeChains, {"3", "null"})
  /\ ClosedIsError(chains, {"3", "null"})
  /\ ClosedIsError(afterChains, {"3", "null"})
  /\ SucceededUpTo(Len(gWorkers)) <= Closes("0")

\* What does hold: the same for a psql that exits with a code other than 0.
C35_ExitCodeIsError ==
  /\ ClosedIsError(beforeChains, {"3"})
  /\ ClosedIsError(chains, {"3"})
  /\ ClosedIsError(afterChains, {"3"})
  /\ SucceededUpTo(Len(gWorkers)) <= Closes("0") + Closes("null")

\* Grid.run has returned true without an error although a signal terminated
\* the psql of a migration of a main chain, and the next migration of the
\* chain was run after it.
C35_Witness ==
  /\ gPhase = "returned"
  /\ gResult = "true"
  /\ \A w \in WorkerIds : gWorkers[w].errorMigrations = << >>
  /\ \E n \in DOMAIN chains :
       \E i \in DOMAIN chains[n].migrations :
         /\ ClosedWith(chains[n], i, "null")
         /\ i < Len(chains[n].migrations)
         /\ ClosedWith(chains[n], i + 1, "0")

(***************************************************************************)
(* Termination of the loop of migrate() (checked under SpecLoop).          *)
(***************************************************************************)
\* The step of actionUndoOrApply that returns hasMoreWork = true.
ReturnsMoreWork == pc = "replan" /\ pc' # "idle" /\ result'.kind = "more"

\* The variant of the loop: an iteration that returns hasMoreWork = true
\* leaves fewer pending chains than it found, which the next iteration finds.
FewerPendingChains == Len(getChains(ModeUndo(opts))) < Len(chains)

\* C36: the loop of migrate() terminates for any option values, any
\* parallelism included: an iteration that returns hasMoreWork = true is
\* followed by one that finds strictly fewer pending chains.
C36_Original == [][ReturnsMoreWork => FewerPendingChains]_vars

\* What does hold: the same with at least one Worker per host.
C36_TerminatesWithWorkers ==
  [][(gParallelism >= 1 /\ ReturnsMoreWork) => FewerPendingChains]_vars

\* The loop has gone round with workersPerHost = 0: the iteration returned
\* hasMoreWork = true with every chain it had found still pending.
C36_Witness ==
  /\ gParallelism = 0
  /\ result.kind = "more"
  /\ pc = "main"
  /\ Len(chains) > 0
  /\ \A d \in Dests : versions[d] = << >>

(***************************************************************************)
(* Properties of Dest.createDB (checked under SpecCreateDB).               *)
(***************************************************************************)
\* The call has ended by "throw e".
CreateThrew == IF cdPc = "threw" THEN 1 ELSE 0

\* The call is at its timer.
CreateSleeping == IF cdPc = "sleep" THEN 1 ELSE 0

\* C37: Dest.createDB retries its probe a second after every query that
\* fails with a connectivity error, with one call of onRetry per failed
\* attempt; it returns "created" or "already-exists" at the first attempt
\* that succeeds, and it throws any other failure at once, without onRetry
\* and without the timer.
C37_RetriesOnConnectivity ==
  /\ [](/\ \A i \in DOMAIN cdRetries : IsConnectivityError(cdRetries[i])
        /\ cdFailed = Len(cdRetries) + CreateThrew
        /\ cdSlept = Len(cdRetries) - CreateSleeping
        /\ cdPc = "returned" =>
             /\ cdOut \in {<< "created" >>, << "already-exists" >>}
             /\ CreateHost \in databases
        /\ cdPc = "threw" => ~IsConnectivityError(cdOut[1]))
  /\ [][/\ cdPc' = "probe" => cdPc \in {"idle", "sleep"}
        /\ cdPc' = "sleep" =>
             cdPc \in {"probe", "create"} /\ Len(cdRetries') = Len(cdRetries) + 1
        /\ cdPc' = "returned" =>
             /\ cdPc \in {"probe", "create"}
             /\ cdOut' = IF CreateHost \in databases THEN << "already-exists" >>
                         ELSE << "created" >>
             /\ UNCHANGED << cdRetries, cdFailed, cdSlept >>
        /\ cdPc' = "threw" =>
             cdPc \in {"probe", "create"} /\ UNCHANGED << cdRetries, cdSlept >>
        /\ cdPc \in {"returned", "threw"} => UNCHANGED createVars]_vars

\* The call has returned "created" after two different connectivity
\* errors, each with its onRetry and its second.
C37_Witness ==
  /\ cdPc = "returned"
  /\ cdOut = << "created" >>
  /\ Len(cdRetries) = 2
  /\ cdRetries[1] # cdRetries[2]
  /\ cdSlept = 2

(***************************************************************************)
(* Properties of validateCreateIndexConcurrently (checked under            *)
(* SpecValidate).                                                          *)
(***************************************************************************)
\* The statements of the validated file.
Validated == removeSqlComments(vcInput.content)

\* The validator was called on a file that has CREATE INDEX CONCURRENTLY
\* together with other statements.
WithOtherStatements ==
  /\ vcOut # << >>
  /\ \E i \in DOMAIN Validated : Validated[i].kind = "CREATE INDEX CONCURRENTLY"
  /\ Len(Validated) > 1

\* The name has a DROP INDEX IF EXISTS before each of its CREATE INDEX
\* CONCURRENTLY.
DropPrecedes(n) ==
  \A i \in DOMAIN Validated :
    Validated[i] = StCreate(n) => \E j \in 1..(i - 1) : Validated[j] = StDrop(n)

\* The name has a DROP INDEX IF EXISTS somewhere in the file.
DropIncluded(n) ==
  (\E i \in DOMAIN Validated : Validated[i] = StCreate(n)) => MatchesDrop(Validated, n)

\* The messages of the requirements of the file that are not met, the
\* requirement of a name being given.
Unmet(dropMet(_)) ==
  (IF Validated[1] = StCommit THEN {} ELSE {ErrCommit})
    \cup (IF \E i \in DOMAIN Validated : Validated[i] = StBegin THEN {} ELSE {ErrBegin})
    \cup (IF SomeRequiredVar(vcInput.vars) THEN {} ELSE {ErrVars})
    \cup {ErrDrop(n) : n \in {x \in IndexNames : ~dropMet(x)}}

\* The messages the validator returned.
Reported == {vcOut[1].errors[i] : i \in DOMAIN vcOut[1].errors} \ {ErrDue}

\* C39: for a file with CREATE INDEX CONCURRENTLY and other statements the
\* validator reports no error only if the file starts with COMMIT;, has
\* BEGIN; at its end or before other SQL, has DROP INDEX IF EXISTS <name>;
\* before every CREATE INDEX CONCURRENTLY <name>, and one of the three
\* variables is set; otherwise it fails with each unmet requirement listed.
C39_Original ==
  WithOtherStatements =>
    /\ vcOut[1].type = "error" <=> Unmet(DropPrecedes) # {}
    /\ Reported = Unmet(DropPrecedes)

\* What does hold: the same with the DROP INDEX IF EXISTS <name> anywhere
\* in the file, after the CREATE INDEX CONCURRENTLY included.
C39_DropAnywhere ==
  WithOtherStatements =>
    /\ vcOut[1].type = "error" <=> Unmet(DropIncluded) # {}
    /\ Reported = Unmet(DropIncluded)

\* The validator has accepted a file whose only DROP INDEX IF EXISTS of the
\* index comes after its CREATE INDEX CONCURRENTLY.
C39_Witness ==
  /\ vcOut # << >>
  /\ vcOut[1].type = "success"
  /\ vcInput.content = << StCommit, StCreate("a"), StDrop("a"), StBegin >>

(***************************************************************************)
(* Properties of the loading of the directory (checked under SpecLoad).    *)
(***************************************************************************)
\* The files of the directory the constructor builds: before.sql, after.sql,
\* the up files and their dn files.
BuiltFiles ==
  {i \in DOMAIN migDir :
     \/ migDir[i].name \in {<< "before", "sql" >>, << "after", "sql" >>}
     \/ MatchesFileName(migDir[i].name)
        /\ \E j \in DOMAIN migDir : migDir[j].name = [migDir[i].name EXCEPT ![4] = "up"]}

\* A .sql file whose name is not before.sql, after.sql or of the format.
MalformedName ==
  \E i \in DOMAIN migDir :
    /\ migDir[i].name[Len(migDir[i].name)] = "sql"
    /\ migDir[i].name \notin {<< "before", "sql" >>, << "after", "sql" >>}
    /\ ~MatchesFileName(migDir[i].name)

\* An up file whose dn file is not in the directory.
UpWithoutDn ==
  \E i \in DOMAIN migDir :
    /\ MatchesFileName(migDir[i].name)
    /\ migDir[i].name[4] = "up"
    /\ \A j \in DOMAIN migDir : migDir[j].name # [migDir[i].name EXCEPT ![4] = "dn"]

\* A built file with a variable that is not a known one.
UnknownDirective ==
  \E i \in BuiltFiles :
    \E k \in DOMAIN migDir[i].content.pairs :
      migDir[i].content.pairs[k][1] \notin VALID_VARS

\* A built file that the validator rejects.
ValidatorRejects ==
  \E i \in BuiltFiles :
    /\ \A k \in DOMAIN migDir[i].content.pairs :
         migDir[i].content.pairs[k][1] \in VALID_VARS
    /\ validateCreateIndexConcurrently(
         migDir[i].content.statements, extractVars(migDir[i].content)).type = "error"

\* The names of the entries of the Registry of the directory, in order.
LoadedVersions ==
  LET entries == RegistryEntries(migDir, 1)
  IN  [i \in DOMAIN entries |->
         entries[i].name[1] \o "." \o entries[i].name[2] \o "." \o entries[i].name[3]]

BadDirectory == MalformedName \/ UpWithoutDn \/ UnknownDirective \/ ValidatorRejects

\* C38: with a malformed .sql file name, an up file without its dn file, an
\* unknown variable or a file the validator rejects in the directory,
\* new Registry throws and migrate() ends before any work: the action is never
\* called, so no Dest is contacted, no database is created, no script is run
\* and no digest, fingerprint or version list is written; the action is
\* called only with a Registry, which has the entries of the directory.
C38_LoadFailsFirst ==
  /\ [](/\ BadDirectory => (pc = "idle" /\ registry # "built")
        /\ pc # "idle" => registry = "built"
        /\ registry = "built" =>
             (~BadDirectory /\ LoadedVersions = << "1.a.sh", "2.b.sh", "3.c.sh3" >>)
        /\ registry = "threw" => (BadDirectory /\ result.kind = "threw"))
  /\ [][BadDirectory => UNCHANGED dbVars]_vars

\* migrate() has thrown in every invocation for a directory whose
\* 2.b.sh.up.sql the validator rejects, the last one with createDB.
C38_Witness ==
  /\ registry = "threw"
  /\ ValidatorRejects
  /\ ~MalformedName /\ ~UpWithoutDn /\ ~UnknownDirective
  /\ runs = MaxRuns
  /\ opts.createDB
  /\ pc = "idle"

(***************************************************************************)
(* The conflict branch of groupBySchema (checked under SpecPlan).          *)
(***************************************************************************)
\* C40: groupBySchema never throws "matches more than one migration
\* prefix": of any two prefixes that match a schema one starts with the
\* other, for every list of prefixes of a directory.
C40_NoConflict ==
  plOut.op = "group" =>
    /\ plOut.prefix # Conflict
    /\ \A p, q \in MatchingPrefixes : StartsWith(p, q) \/ StartsWith(q, p)

\* groupBySchema has returned for the schema sh31 of a directory that gives
\* the prefix sh3 before the prefix sh31, both of which match it.
C40_Witness ==
  /\ plOut.op = "group"
  /\ plSchema = Str_sh31
  /\ plOut.prefixes = << Str_sh3, Str_sh31 >>
  /\ MatchingPrefixes = {Str_sh3, Str_sh31}
  /\ plOut.prefix = Str_sh31

====
